---- MODULE Spec2Model ----
(***************************************************************************)
(* Model of the sandbox core of ai-code-assistant:                         *)
(*   src/api/app/agents/tools.py       (file tools of the agent)           *)
(*   src/api/app/utils/docker_route.py (container lifecycle and status)    *)
(* Strings are sequences of one-character strings, so that Python's        *)
(* startswith / in / split / strip / replace are computed, not assumed.    *)
(***************************************************************************)
EXTENDS Integers, Sequences, FiniteSets, TLC

VARIABLES
    files,      \* regular files of the host file system (resolved paths)
    dirs,       \* directories of the host file system (resolved paths)
    toolCall,   \* the file-tool call that has just returned, or NoCall
    projects,   \* project directories that exist under PROJECTS_DIR
    dcall,      \* the docker_route call that has just returned, or NoCall
    prev,       \* summary of the docker_route call before dcall
    cwd,        \* the working directory of the server process
    threads,    \* per thread: how far its run_command call has got
    db,         \* rows of the projects table and of the conversation messages
    session     \* the WebSocket session of /stream/{project_id}

(***************************************************************************)
(* Python str helpers                                                      *)
(***************************************************************************)
\* every string over alphabet A of length at most n
Strs(A, n) == UNION {[1..k -> A] : k \in 0..n}

\* str.startswith
StartsWith(s, p) == Len(p) <= Len(s) /\ SubSeq(s, 1, Len(p)) = p

\* the `in` operator on str
Contains(sub, s) ==
    \E i \in 1..(Len(s) - Len(sub) + 1) : SubSeq(s, i, i + Len(sub) - 1) = sub

\* str.split(c) for a one-character separator: the pieces between the
\* occurrences of c
Split(s, c) ==
    LET seps == {i \in 1..Len(s) : s[i] = c}
        pos(k) == CHOOSE i \in seps : Cardinality({m \in seps : m < i}) = k - 1
    IN [k \in 1..(Cardinality(seps) + 1) |->
          SubSeq(s, IF k = 1 THEN 1 ELSE pos(k - 1) + 1,
                    IF k = Cardinality(seps) + 1 THEN Len(s) ELSE pos(k) - 1)]

\* str.split(c, 1): at most one split, at the first occurrence of c
SplitOnce(s, c) ==
    IF \E i \in 1..Len(s) : s[i] = c
    THEN LET i == CHOOSE k \in 1..Len(s) : s[k] = c /\ \A m \in 1..(k - 1) : s[m] # c
         IN << SubSeq(s, 1, i - 1), SubSeq(s, i + 1, Len(s)) >>
    ELSE << s >>

\* c.join(parts)
RECURSIVE JoinWith(_, _)
JoinWith(parts, c) ==
    IF Len(parts) = 0 THEN <<>>
    ELSE IF Len(parts) = 1 THEN parts[1]
    ELSE parts[1] \o c \o JoinWith(Tail(parts), c)

Last(s) == s[Len(s)]
Front(s) == SubSeq(s, 1, Len(s) - 1)

(***************************************************************************)
(* posixpath                                                               *)
(***************************************************************************)
SLASH == <<"/">>
DOT == <<".">>
DOTDOT == <<".", ".">>

\* os.path.join(a, b)
PathJoin(a, b) ==
    IF StartsWith(b, SLASH) THEN b
    ELSE IF a = <<>> \/ Last(a) = "/" THEN a \o b
    ELSE a \o SLASH \o b

\* the component loop of os.path.normpath
RECURSIVE NormComps(_, _, _)
NormComps(comps, new, rooted) ==
    IF comps = <<>> THEN new
    ELSE LET comp == Head(comps) IN
         IF comp = <<>> \/ comp = DOT THEN NormComps(Tail(comps), new, rooted)
         ELSE IF comp # DOTDOT
                 \/ (~rooted /\ new = <<>>)
                 \/ (new # <<>> /\ Last(new) = DOTDOT)
              THEN NormComps(Tail(comps), Append(new, comp), rooted)
         ELSE IF new # <<>> THEN NormComps(Tail(comps), Front(new), rooted)
         ELSE NormComps(Tail(comps), new, rooted)

\* os.path.normpath
NormPath(path) ==
    IF path = <<>> THEN DOT
    ELSE LET slashes == IF ~StartsWith(path, SLASH) THEN 0
                        ELSE IF StartsWith(path, <<"/", "/">>)
                                /\ ~StartsWith(path, <<"/", "/", "/">>) THEN 2
                        ELSE 1
             body == JoinWith(NormComps(Split(path, "/"), <<>>, slashes > 0), SLASH)
             res == (IF slashes = 2 THEN <<"/", "/">>
                     ELSE IF slashes = 1 THEN SLASH ELSE <<>>) \o body
         IN IF res = <<>> THEN DOT ELSE res

\* os.path.abspath of a path given the working directory
AbsPath(getcwd, path) ==
    NormPath(IF StartsWith(path, SLASH) THEN path ELSE PathJoin(getcwd, path))

\* os.path.dirname
RECURSIVE RStripSlash(_)
RStripSlash(s) ==
    IF s # <<>> /\ Last(s) = "/" THEN RStripSlash(Front(s)) ELSE s

DirName(p) ==
    LET idx == {i \in 1..Len(p) : p[i] = "/"}
        i == IF idx = {} THEN 0 ELSE CHOOSE k \in idx : \A m \in idx : m <= k
        head == SubSeq(p, 1, i)
    IN IF head # <<>> /\ \E k \in 1..Len(head) : head[k] # "/"
       THEN RStripSlash(head) ELSE head

\* os.path.split
PathSplit(p) ==
    LET idx == {i \in 1..Len(p) : p[i] = "/"}
        i == IF idx = {} THEN 0 ELSE CHOOSE k \in idx : \A m \in idx : m <= k
        head == SubSeq(p, 1, i)
    IN [head |-> IF head # <<>> /\ \E k \in 1..Len(head) : head[k] # "/"
                 THEN RStripSlash(head) ELSE head,
        tail |-> SubSeq(p, i + 1, Len(p))]

(***************************************************************************)
(* The host file system as the tools see it.  A resolved path is the       *)
(* sequence of its component names; <<>> is "/".                           *)
(***************************************************************************)
\* the kernel's lookup of an absolute path: every component is looked up in
\* a directory; the final component need not exist
RECURSIVE Walk(_, _, _, _)
Walk(comps, cur, D, F) ==
    IF comps = <<>> THEN [ok |-> TRUE, at |-> cur, err |-> "none"]
    ELSE IF cur \in DOMAIN F THEN [ok |-> FALSE, at |-> cur, err |-> "ENOTDIR"]
    ELSE IF cur \notin D THEN [ok |-> FALSE, at |-> cur, err |-> "ENOENT"]
    ELSE LET comp == Head(comps) IN
         IF comp = <<>> \/ comp = DOT THEN Walk(Tail(comps), cur, D, F)
         ELSE IF comp = DOTDOT
              THEN Walk(Tail(comps), IF cur = <<>> THEN cur ELSE Front(cur), D, F)
         ELSE Walk(Tail(comps), Append(cur, comp), D, F)

Lookup(path, D, F) == Walk(Split(path, "/"), <<>>, D, F)

\* os.path.exists / os.path.isdir
PathExists(path, D, F) ==
    LET w == Lookup(path, D, F) IN w.ok /\ (w.at \in D \/ w.at \in DOMAIN F)

PathIsDir(path, D, F) ==
    LET w == Lookup(path, D, F) IN w.ok /\ w.at \in D

\* os.mkdir
MkDir(name, D, F) ==
    LET w == Lookup(name, D, F) IN
    IF ~w.ok THEN [exc |-> "OSError", dirs |-> D, made |-> <<>>]
    ELSE IF w.at \in D \/ w.at \in DOMAIN F
         THEN [exc |-> "FileExistsError", dirs |-> D, made |-> <<>>]
    ELSE [exc |-> "none", dirs |-> D \cup {w.at}, made |-> <<w.at>>]

\* os.makedirs(name, exist_ok=True): the trailing mkdir(name) and its handler
MakeDirsLeaf(name, sub, m, F) ==
    IF m.exc = "none"
    THEN [exc |-> "none", dirs |-> m.dirs, made |-> sub.made \o m.made]
    ELSE IF PathIsDir(name, sub.dirs, F)
    THEN [exc |-> "none", dirs |-> sub.dirs, made |-> sub.made]
    ELSE [exc |-> m.exc, dirs |-> sub.dirs, made |-> sub.made]

MakeDirsAfterHead(name, tail, recurse, sub, F) ==
    IF sub.exc = "OSError" THEN sub
    ELSE IF recurse /\ tail = DOT THEN [sub EXCEPT !.exc = "none"]
    ELSE MakeDirsLeaf(name, sub, MkDir(name, sub.dirs, F), F)

MakeDirsSplit(s1) == IF s1.tail = <<>> THEN PathSplit(s1.head) ELSE s1

\* os.makedirs(name, exist_ok=True)
RECURSIVE MakeDirs(_, _, _)
RECURSIVE MakeDirsHead(_, _, _, _)
MakeDirsHead(name, s, D, F) ==
    IF s.head # <<>> /\ s.tail # <<>> /\ ~PathExists(s.head, D, F)
    THEN MakeDirsAfterHead(name, s.tail, TRUE, MakeDirs(s.head, D, F), F)
    ELSE MakeDirsAfterHead(name, s.tail, FALSE,
                           [exc |-> "none", dirs |-> D, made |-> <<>>], F)

MakeDirs(name, D, F) == MakeDirsHead(name, MakeDirsSplit(PathSplit(name)), D, F)

\* code-point order of the characters the model uses, and sorted() on names
CharRank(c) ==
    CASE c = "." -> 46 [] c = "/" -> 47 [] c = "e" -> 101 [] c = "p" -> 112
      [] c = "|" -> 124 [] OTHER -> 0

RECURSIVE StrLess(_, _)
StrLess(a, b) ==
    IF b = <<>> THEN FALSE
    ELSE IF a = <<>> THEN TRUE
    ELSE IF Head(a) # Head(b) THEN CharRank(Head(a)) < CharRank(Head(b))
    ELSE StrLess(Tail(a), Tail(b))

RECURSIVE Sorted(_)
Sorted(S) ==
    IF S = {} THEN <<>>
    ELSE LET m == CHOOSE x \in S : \A y \in S \ {x} : StrLess(x, y)
         IN <<m>> \o Sorted(S \ {m})

\* os.listdir of a resolved directory
ListDir(at, D, F) ==
    {Last(n) : n \in {x \in D \cup DOMAIN F : x # <<>> /\ Front(x) = at}}

(***************************************************************************)
(* tools.py: the file tools built by get_tools_for_project(project_path)   *)
(***************************************************************************)
MaxPathTokens == 3   \* longest file_path / directory argument, in tokens
MaxFsChanges == 1    \* write_file is explored while fewer nodes were changed

\* the arguments explored: every concatenation of at most MaxPathTokens of
\* these pieces, e.g. "../e", "/pe", "e/..", "..e"
PathTokens == {SLASH, DOTDOT, <<"e">>, <<"p">>}

RECURSIVE Concat(_)
Concat(ss) == IF ss = <<>> THEN <<>> ELSE Head(ss) \o Concat(Tail(ss))

PathInputs == {Concat(t) : t \in Strs(PathTokens, MaxPathTokens)}
Contents == {<<>>, <<"|">>}

\* streaming.py passes os.path.abspath(os.path.join(PROJECTS_DIR, name))
ProjectPath == <<"/", "p">>
Cwd == <<"/">>

\* the host at the start: /p is the project with one file, /e is a file of
\* the host outside every project
InitDirs == {<<>>, << <<"p">> >>}
InitFiles == (<< <<"e">> >> :> <<"e">>) @@ (<< <<"p">>, <<"e">> >> :> <<"p">>)

NoCall == [tool |-> "none"]

\* no run_command call is in progress in any thread
Threads == {1, 2}
NoThreads == [t \in Threads |-> [pc |-> "idle"]]

\* the tables are empty
NoRows == [projects |-> {}, messages |-> {}]

\* no WebSocket connection is open
NoSession == [pc |-> "closed"]

FileTools == {"read_file", "write_file", "list_files"}

toolVars == <<files, dirs, toolCall>>
hostVars == <<cwd, threads, session>>

Obs(msg, args) == [msg |-> msg, args |-> args]

\* the security check shared by the three tools (tools.py lines 35, 58, 76)
SecurityCheckPasses(full_path) == StartsWith(full_path, AbsPath(Cwd, ProjectPath))

\* read_file_tool
ReadFileTool(file_path, D, F) ==
    LET full_path == PathJoin(ProjectPath, file_path)
        w == Lookup(full_path, D, F)
    IN IF ~SecurityCheckPasses(full_path)
       THEN [obs |-> Obs("Error: Access denied - file outside project directory", <<>>),
             io |-> <<>>]
       ELSE IF w.ok /\ w.at \in DOMAIN F
       THEN [obs |-> Obs("Content of {file_path}:\n{content}", <<file_path, F[w.at]>>),
             io |-> <<[op |-> "read", at |-> w.at]>>]
       ELSE IF (w.ok /\ w.at \notin D) \/ (~w.ok /\ w.err = "ENOENT")
       THEN [obs |-> Obs("Error: File {file_path} not found", <<file_path>>),
             io |-> <<>>]
       ELSE [obs |-> Obs("Error reading file: {e}", <<>>), io |-> <<>>]

\* write_file_tool: open(full_path, 'w') and f.write(content), after makedirs
WriteFileOpen(file_path, content, mk, w, F) ==
    LET made == [i \in 1..Len(mk.made) |-> [op |-> "mkdir", at |-> mk.made[i]]] IN
    IF mk.exc # "none" \/ ~w.ok \/ w.at \in mk.dirs
    THEN [obs |-> Obs("Error writing file: {e}", <<>>),
          io |-> made, dirs |-> mk.dirs, files |-> F]
    ELSE [obs |-> Obs("Successfully wrote to {file_path}", <<file_path>>),
          io |-> Append(made, [op |-> "write", at |-> w.at]),
          dirs |-> mk.dirs,
          files |-> (w.at :> content) @@ F]

WriteFileChecked(file_path, content, full_path, mk, F) ==
    WriteFileOpen(file_path, content, mk, Lookup(full_path, mk.dirs, F), F)

WriteFileParts(parts, D, F) ==
    IF ~SecurityCheckPasses(PathJoin(ProjectPath, parts[1]))
    THEN [obs |-> Obs("Error: Access denied - file outside project directory", <<>>),
          io |-> <<>>, dirs |-> D, files |-> F]
    ELSE WriteFileChecked(parts[1], parts[2], PathJoin(ProjectPath, parts[1]),
                          MakeDirs(DirName(PathJoin(ProjectPath, parts[1])), D, F), F)

\* write_file_tool
WriteFileTool(input_str, D, F) ==
    IF Len(SplitOnce(input_str, "|")) # 2
    THEN [obs |-> Obs("Error: Input must be in format 'filename|content'", <<>>),
          io |-> <<>>, dirs |-> D, files |-> F]
    ELSE WriteFileParts(SplitOnce(input_str, "|"), D, F)

\* list_files_tool
ListFilesTool(directory, D, F) ==
    LET full_path == PathJoin(ProjectPath, directory)
        w == Lookup(full_path, D, F)
        names == Sorted({n \in ListDir(w.at, D, F) : ~StartsWith(n, DOT)})
        items == [i \in 1..Len(names) |->
                    IF Append(w.at, names[i]) \in D
                    THEN <<"dir", names[i]>>
                    ELSE <<"file", names[i], Len(F[Append(w.at, names[i])])>>]
    IN IF ~SecurityCheckPasses(full_path)
       THEN [obs |-> Obs("Error: Access denied - directory outside project", <<>>),
             io |-> <<>>]
       ELSE IF ~PathExists(full_path, D, F)
       THEN [obs |-> Obs("Error: Directory {directory} not found", <<directory>>),
             io |-> <<>>]
       ELSE IF w.at \notin D
       THEN [obs |-> Obs("Error listing directory: {e}", <<>>), io |-> <<>>]
       ELSE [obs |-> Obs("Contents of {directory}:\n{items}", <<directory, items>>),
             io |-> <<[op |-> "listdir", at |-> w.at]>>]

\* number of nodes created or overwritten since the start
FsChanges ==
    Cardinality((dirs \ InitDirs) \cup
                {f \in DOMAIN files : f \notin DOMAIN InitFiles \/ files[f] # InitFiles[f]})

ReadFile(file_path) ==
    /\ toolCall = NoCall
    /\ LET r == ReadFileTool(file_path, dirs, files) IN
       toolCall' = [tool |-> "read_file", path |-> file_path, obs |-> r.obs, io |-> r.io,
                    raised |-> "none"]
    /\ UNCHANGED <<files, dirs, projects, dcall, prev, hostVars, db>>

WriteFileResult(input_str, r) ==
    /\ toolCall' = [tool |-> "write_file", path |-> SplitOnce(input_str, "|")[1],
                    obs |-> r.obs, io |-> r.io, raised |-> "none"]
    /\ files' = r.files
    /\ dirs' = r.dirs

WriteFile(input_str) ==
    /\ toolCall = NoCall
    /\ FsChanges < MaxFsChanges
    /\ WriteFileResult(input_str, WriteFileTool(input_str, dirs, files))
    /\ UNCHANGED <<projects, dcall, prev, hostVars, db>>

ListFiles(directory) ==
    /\ toolCall = NoCall
    /\ LET r == ListFilesTool(directory, dirs, files) IN
       toolCall' = [tool |-> "list_files", path |-> directory, obs |-> r.obs, io |-> r.io,
                    raised |-> "none"]
    /\ UNCHANGED <<files, dirs, projects, dcall, prev, hostVars, db>>

\* the agent loop takes the observation; the next tool call may follow
ToolReturn ==
    /\ toolCall # NoCall
    /\ toolCall' = NoCall
    /\ UNCHANGED <<files, dirs, projects, dcall, prev, hostVars, db>>

WriteInputs == PathInputs \cup {p \o <<"|">> \o c : p \in PathInputs, c \in Contents}


InitTools ==
    /\ files = InitFiles
    /\ dirs = InitDirs
    /\ toolCall = NoCall
    /\ projects = {}
    /\ dcall = NoCall
    /\ prev = NoCall
    /\ cwd = Cwd
    /\ threads = NoThreads
    /\ db = NoRows
    /\ session = NoSession

vars == <<files, dirs, toolCall, projects, dcall, prev, cwd, threads, db, session>>

(***************************************************************************)
(* C1: path containment                                                    *)
(***************************************************************************)
\* resolve(root, path): the normalized absolute path of the target
ResolvedTarget(path) == AbsPath(Cwd, PathJoin(ProjectPath, path))

UnderProjectRoot(r) ==
    LET root == AbsPath(Cwd, ProjectPath) IN r = root \/ StartsWith(r, root \o SLASH)

IsAccessDenied(obs) ==
    obs.msg \in {"Error: Access denied - file outside project directory",
                 "Error: Access denied - directory outside project"}

\* C1: every file-tool call whose resolved target is not under the resolved
\* project root returns an access-denied observation and performs no
\* file-system read, write or directory creation.
C1_PathContainment ==
    (toolCall # NoCall /\ toolCall.tool \in FileTools
     /\ ~UnderProjectRoot(ResolvedTarget(toolCall.path)))
        => (IsAccessDenied(toolCall.obs) /\ toolCall.io = <<>>)


(***************************************************************************)
(* docker_route.py: string constants (as character sequences)              *)
(***************************************************************************)
TxtImage == <<"I", "m", "a", "g", "e", ":">>
TxtStatus == <<"S", "t", "a", "t", "u", "s", ":">>
TxtPorts == <<"P", "o", "r", "t", "s", ":">>
TxtSubdomain == <<"S", "u", "b", "d", "o", "m", "a", "i", "n", ":">>
TxtStars == <<"*", "*">>
TxtDashStars == <<"-", " ", "*", "*">>
TxtRunning == <<"r", "u", "n", "n", "i", "n", "g">>
TxtUp == <<"u", "p">>
TxtSecond == <<"s", "e", "c", "o", "n", "d">>
TxtMinute == <<"m", "i", "n", "u", "t", "e">>
TxtUpSp == <<"u", "p", " ">>
TxtSpSecond == <<" ", "s", "e", "c", "o", "n", "d">>
TxtNotFound == <<"N", "o", "t", " ", "f", "o", "u", "n", "d">>
TxtNotInList == <<"C", "o", "n", "t", "a", "i", "n", "e", "r", " ", "n", "o", "t", " ", "f", "o", "u", "n", "d", " ", "i", "n", " ", "d", "o", "c", "k", "-", "r", "o", "u", "t", "e", " ", "m", "a", "n", "a", "g", "e", "d", " ", "c", "o", "n", "t", "a", "i", "n", "e", "r", "s">>
TxtErrorListing == <<"E", "r", "r", "o", "r", " ", "l", "i", "s", "t", "i", "n", "g", " ", "c", "o", "n", "t", "a", "i", "n", "e", "r", "s">>
TxtTimeout == <<"T", "i", "m", "e", "o", "u", "t">>
TxtError == <<"E", "r", "r", "o", "r">>
TxtUpCap == <<"U", "p", " ">>
TxtSeconds == <<" ", "s", "e", "c", "o", "n", "d", "s">>
TxtMinutes == <<" ", "m", "i", "n", "u", "t", "e", "s">>
TxtExited == <<"E", "x", "i", "t", "e", "d">>
TxtLessThanASecond == <<"U", "p", " ", "L", "e", "s", "s", " ", "t", "h", "a", "n", " ", "a", " ", "s", "e", "c", "o", "n", "d">>
TxtInterrupted == <<"I", "n", "t", "e", "r", "r", "u", "p", "t", "e", "d">>
TxtStartupFailed == <<"S", "t", "a", "r", "t", "u", "p", " ", "f", "a", "i", "l", "e", "d">>

Whitespace == {" ", "\t", "\n"}
Digits == {"0", "1", "2", "3", "4", "5", "6", "7", "8", "9"}

\* str.lower on the letters
LowerChar(c) ==
    CASE c = "A" -> "a" [] c = "B" -> "b" [] c = "C" -> "c" [] c = "D" -> "d"
      [] c = "E" -> "e" [] c = "F" -> "f" [] c = "G" -> "g" [] c = "H" -> "h"
      [] c = "I" -> "i" [] c = "J" -> "j" [] c = "K" -> "k" [] c = "L" -> "l"
      [] c = "M" -> "m" [] c = "N" -> "n" [] c = "O" -> "o" [] c = "P" -> "p"
      [] c = "Q" -> "q" [] c = "R" -> "r" [] c = "S" -> "s" [] c = "T" -> "t"
      [] c = "U" -> "u" [] c = "V" -> "v" [] c = "W" -> "w" [] c = "X" -> "x"
      [] c = "Y" -> "y" [] c = "Z" -> "z" [] OTHER -> c

Lower(s) == [i \in 1..Len(s) |-> LowerChar(s[i])]

\* str.strip
RECURSIVE LStrip(_)
LStrip(s) == IF s # <<>> /\ Head(s) \in Whitespace THEN LStrip(Tail(s)) ELSE s

RECURSIVE RStrip(_)
RStrip(s) == IF s # <<>> /\ Last(s) \in Whitespace THEN RStrip(Front(s)) ELSE s

Strip(s) == RStrip(LStrip(s))

\* str.replace(old, new), old not empty: occurrences are taken left to right
RECURSIVE Replace(_, _, _)
Replace(s, old, new) ==
    LET hits == {i \in 1..Len(s) : StartsWith(SubSeq(s, i, Len(s)), old)} IN
    IF hits = {} THEN s
    ELSE LET i == CHOOSE k \in hits : \A m \in hits : k <= m IN
         SubSeq(s, 1, i - 1) \o new \o Replace(SubSeq(s, i + Len(old), Len(s)), old, new)

\* int() of a digit string
DigitVal(c) ==
    CASE c = "0" -> 0 [] c = "1" -> 1 [] c = "2" -> 2 [] c = "3" -> 3 [] c = "4" -> 4
      [] c = "5" -> 5 [] c = "6" -> 6 [] c = "7" -> 7 [] c = "8" -> 8 [] c = "9" -> 9

RECURSIVE IntOf(_)
IntOf(ds) == IF ds = <<>> THEN 0 ELSE 10 * IntOf(Front(ds)) + DigitVal(Last(ds))

\* str() of a natural number
RECURSIVE StrOfNat(_)
StrOfNat(n) ==
    LET d == <<"0", "1", "2", "3", "4", "5", "6", "7", "8", "9">>[(n % 10) + 1]
    IN IF n < 10 THEN <<d>> ELSE Append(StrOfNat(n \div 10), d)

\* the number of leading digits of s
RECURSIVE DigitRun(_)
DigitRun(s) == IF s # <<>> /\ Head(s) \in Digits THEN 1 + DigitRun(Tail(s)) ELSE 0

\* re.search(r'up (\d+) second', s): does the pattern match at index i
UpSecondMatchAt(s, i) ==
    LET afterUp == SubSeq(s, i + Len(TxtUpSp), Len(s))
        n == DigitRun(afterUp)
    IN /\ StartsWith(SubSeq(s, i, Len(s)), TxtUpSp)
       /\ n >= 1
       /\ StartsWith(SubSeq(afterUp, n + 1, Len(afterUp)), TxtSpSecond)

\* re.search(r'up (\d+) second', s): group(1) of the leftmost match, or <<>>
UpSecondSearch(s) ==
    LET hits == {i \in 1..Len(s) : UpSecondMatchAt(s, i)} IN
    IF hits = {} THEN <<>>
    ELSE LET i == CHOOSE k \in hits : \A m \in hits : k <= m
             afterUp == SubSeq(s, i + Len(TxtUpSp), Len(s))
         IN SubSeq(afterUp, 1, DigitRun(afterUp))

(***************************************************************************)
(* docker_route.py: check_container_status                                 *)
(***************************************************************************)
LookAheadLimit == 6

\* f"**{container_name}**"
Marker(container_name) == TxtStars \o container_name \o TxtStars

\* container_info before any detail line is read (lines 73-80, 89)
FoundInfo ==
    [exists |-> TRUE, status |-> TxtNotFound, running |-> FALSE,
     image |-> <<>>, ports |-> <<>>, subdomain |-> <<>>]

\* the if/elif chain on one detail line: the assignments (lines 96-107)
DetailUpdate(info, d) ==
    IF StartsWith(d, TxtImage)
    THEN [info EXCEPT !.image = Strip(Replace(d, TxtImage, <<>>))]
    ELSE IF StartsWith(d, TxtStatus)
    THEN [info EXCEPT
            !.status = Strip(Replace(d, TxtStatus, <<>>)),
            !.running = Contains(TxtRunning, Lower(Strip(Replace(d, TxtStatus, <<>>))))
                        \/ Contains(TxtUp, Lower(Strip(Replace(d, TxtStatus, <<>>))))]
    ELSE IF StartsWith(d, TxtPorts)
    THEN [info EXCEPT !.ports = Strip(Replace(d, TxtPorts, <<>>))]
    ELSE IF StartsWith(d, TxtSubdomain)
    THEN [info EXCEPT !.subdomain = Strip(Replace(d, TxtSubdomain, <<>>))]
    ELSE info

\* variant of the break branches that ends a block at a blank line only
DetailStops_BlankOnly(d) ==
    /\ ~StartsWith(d, TxtImage)
    /\ ~StartsWith(d, TxtStatus)
    /\ ~StartsWith(d, TxtPorts)
    /\ ~StartsWith(d, TxtSubdomain)
    /\ d = <<>>

\* the if/elif chain on one detail line: the two break branches (lines 108-113)
DetailStops(d) ==
    /\ ~StartsWith(d, TxtImage)
    /\ ~StartsWith(d, TxtStatus)
    /\ ~StartsWith(d, TxtPorts)
    /\ ~StartsWith(d, TxtSubdomain)
    /\ \/ StartsWith(d, TxtDashStars) /\ Contains(TxtStars, d)
       \/ d = <<>>

\* the inner while loop (lines 92-115); lines are indexed from 1 here
RECURSIVE ParseDetails(_, _, _, _)
ParseDetails(lines, j, limit, info) ==
    IF ~(j <= Len(lines) /\ j < limit) THEN info
    ELSE IF DetailStops(Strip(lines[j])) THEN info
    ELSE ParseDetails(lines, j + 1, limit, DetailUpdate(info, Strip(lines[j])))

\* variant of the parser that reads running off any Status line when no block matched
ParseListing_RunningLeak(container_name, lines) ==
    LET hits == {i \in 1..Len(lines) : Contains(Marker(container_name), Strip(lines[i]))} IN
    IF hits = {}
    THEN [exists |-> FALSE, status |-> TxtNotInList,
          running |-> \E i \in 1..Len(lines) :
                         /\ StartsWith(Strip(lines[i]), TxtStatus)
                         /\ Contains(TxtUp, Lower(Strip(lines[i]))),
          error |-> <<"Container '", container_name, "' not found in list">>]
    ELSE ParseDetails(lines, (CHOOSE k \in hits : \A m \in hits : k <= m) + 1,
                      (CHOOSE k \in hits : \A m \in hits : k <= m) + LookAheadLimit,
                      FoundInfo)

\* the outer while loop and the not-found return (lines 71-129)
ParseListing(container_name, lines) ==
    LET hits == {i \in 1..Len(lines) : Contains(Marker(container_name), Strip(lines[i]))} IN
    IF hits = {}
    THEN [exists |-> FALSE, status |-> TxtNotInList, running |-> FALSE,
          error |-> <<"Container '", container_name, "' not found in list">>]
    ELSE ParseDetails(lines, (CHOOSE k \in hits : \A m \in hits : k <= m) + 1,
                      (CHOOSE k \in hits : \A m \in hits : k <= m) + LookAheadLimit,
                      FoundInfo)

\* variant of check_container_status that answers from the previous query of
\* the same container where there is one
CheckContainerStatus_Remembered(container_name, out) ==
    IF "ret" \in DOMAIN prev /\ prev.name = container_name
    THEN prev.ret
    ELSE IF out.kind = "timeout"
    THEN [exists |-> FALSE, status |-> TxtTimeout, running |-> FALSE,
          error |-> <<"Timeout while checking container status">>]
    ELSE IF out.kind = "error"
    THEN [exists |-> FALSE, status |-> TxtError, running |-> FALSE,
          error |-> <<out.exc>>]
    ELSE IF out.rc = 0 THEN ParseListing(container_name, Split(out.stdout, "\n"))
    ELSE [exists |-> FALSE, status |-> TxtErrorListing, running |-> FALSE,
          error |-> <<IF out.stderr # "" THEN out.stderr ELSE "Failed to list containers">>]

\* variant of check_container_status that parses stdout whatever the exit code
CheckContainerStatus_ParseOnFailure(container_name, out) ==
    IF out.kind = "timeout"
    THEN [exists |-> FALSE, status |-> TxtTimeout, running |-> FALSE,
          error |-> <<"Timeout while checking container status">>]
    ELSE IF out.kind = "error"
    THEN [exists |-> FALSE, status |-> TxtError, running |-> FALSE,
          error |-> <<out.exc>>]
    ELSE ParseListing(container_name, Split(out.stdout, "\n"))

\* check_container_status, given what subprocess.run of `list containers` did
CheckContainerStatus(container_name, out) ==
    IF out.kind = "timeout"
    THEN [exists |-> FALSE, status |-> TxtTimeout, running |-> FALSE,
          error |-> <<"Timeout while checking container status">>]
    ELSE IF out.kind = "error"
    THEN [exists |-> FALSE, status |-> TxtError, running |-> FALSE,
          error |-> <<out.exc>>]
    ELSE IF out.rc = 0 THEN ParseListing(container_name, Split(out.stdout, "\n"))
    ELSE [exists |-> FALSE, status |-> TxtErrorListing, running |-> FALSE,
          error |-> <<IF out.stderr # "" THEN out.stderr ELSE "Failed to list containers">>]

(***************************************************************************)
(* The external runtime: what `dock-route list containers` may print       *)
(***************************************************************************)
MaxLines == 3        \* longest listing explored, in lines

ContainerNames == {<<"a">>, <<"b">>}

\* "Up <duration>" as the runtime prints the age of a running container
UpText(age) ==
    IF age = 1 THEN TxtUpCap \o StrOfNat(age) \o TxtSpSecond
    ELSE IF age < 60 THEN TxtUpCap \o StrOfNat(age) \o TxtSeconds
    ELSE TxtUpCap \o StrOfNat(age \div 60) \o TxtMinutes

UpAges == {1, 29, 30, 300}

StatusTexts == {UpText(age) : age \in UpAges} \cup {TxtExited, TxtLessThanASecond}

VocabLines ==
    {<<"-", " ">> \o Marker(n) : n \in ContainerNames}
    \cup {TxtStatus \o <<" ">> \o t : t \in StatusTexts}
    \cup {<<>>, TxtImage \o <<" ", "i">>, <<" ", " ">> \o TxtPorts \o <<" ", "p", " ">>}

Listings == {JoinWith(ls, <<"\n">>) : ls \in Strs(VocabLines, MaxLines)}

\* outcomes of subprocess.run([DOCK_ROUTE_PATH, "list", "containers"], timeout=30)
ListOutcomes ==
    {[kind |-> "exit", rc |-> 0, stdout |-> l, stderr |-> ""] : l \in Listings}
    \cup {[kind |-> "exit", rc |-> 1, stdout |-> <<>>, stderr |-> e] : e \in {"", "boom"}}
    \cup {[kind |-> "timeout"], [kind |-> "error", exc |-> "FileNotFoundError"]}

\* every status a query for one container can return
StatusResults == [n \in ContainerNames |-> {CheckContainerStatus(n, o) : o \in ListOutcomes}]

(***************************************************************************)
(* docker_route.py: the operations.  Each takes what the external          *)
(* processes it runs did, and returns the call's result together with the  *)
(* subprocess.run invocations (cmds) and time.sleep calls (sleeps) it made.*)
(***************************************************************************)
ListCmd == [sub |-> "list"]
ExecCmd(container_name, command) == [sub |-> "exec", name |-> container_name, command |-> command]
StartCmd(container_name) == [sub |-> "start", name |-> container_name]
StopCmd(container_name) == [sub |-> "stop", name |-> container_name]
DeployCmd(container_name, project_path, port) ==
    [sub |-> "deploy", name |-> container_name, path |-> project_path, port |-> port]

NoRet == [none |-> TRUE]

\* variant of GraceSleeps: the age test written as <= 30
GraceSleeps_Through30(status) ==
    IF /\ Contains(TxtSecond, Lower(status.status))
       /\ UpSecondSearch(Lower(status.status)) # <<>>
       /\ IntOf(UpSecondSearch(Lower(status.status))) <= 30
    THEN <<5>> ELSE <<>>

\* the readiness wait of execute_container_command (lines 190-204); the bare
\* except of line 202 cannot run: re.search and int() of \d+ do not raise
GraceSleeps(status) ==
    IF /\ Contains(TxtUp, Lower(status.status))
       /\ \/ Contains(TxtSecond, Lower(status.status))
          \/ Contains(TxtMinute, Lower(status.status))
       /\ Contains(TxtSecond, Lower(status.status))
       /\ UpSecondSearch(Lower(status.status)) # <<>>
       /\ IntOf(UpSecondSearch(Lower(status.status))) < 30
    THEN <<5>> ELSE <<>>

\* variant of the try block without the `except FileNotFoundError` clause
ExecResult_NoMissingBinaryClause(command, status, out) ==
    IF out.kind = "exit"
    THEN [success |-> out.rc = 0, stdout |-> out.stdout, stderr |-> <<out.stderr>>,
          return_code |-> out.rc, command |-> command, container_status |-> status]
    ELSE IF out.kind = "timeout"
    THEN [success |-> FALSE, stdout |-> "", stderr |-> <<"Command timed out after 5 minutes">>,
          return_code |-> -1, command |-> command, container_status |-> status]
    ELSE [success |-> FALSE, stdout |-> "", stderr |-> <<out.exc>>,
          return_code |-> -1, command |-> command, container_status |-> status]

\* the try block of execute_container_command (lines 206-261)
ExecResult(command, status, out) ==
    IF out.kind = "exit"
    THEN [success |-> out.rc = 0, stdout |-> out.stdout, stderr |-> <<out.stderr>>,
          return_code |-> out.rc, command |-> command, container_status |-> status]
    ELSE IF out.kind = "timeout"
    THEN [success |-> FALSE, stdout |-> "", stderr |-> <<"Command timed out after 5 minutes">>,
          return_code |-> -1, command |-> command, container_status |-> status]
    ELSE IF out.exc = "FileNotFoundError"
    THEN [success |-> FALSE, stdout |-> "",
          stderr |-> <<"dock-route executable not found at ", "DOCK_ROUTE_PATH">>,
          return_code |-> -1, command |-> command, container_status |-> status]
    ELSE [success |-> FALSE, stdout |-> "", stderr |-> <<out.exc>>,
          return_code |-> -1, command |-> command, container_status |-> status]

\* variant of execute_container_command without the `not status["running"]` return
ExecuteContainerCommand_NoRunningGate(container_name, command, status, out) ==
    IF ~status.exists
    THEN [ret |-> [success |-> FALSE, stdout |-> "",
                   stderr |-> <<"Container '", container_name, "' not found">>,
                   return_code |-> -1, command |-> command, container_status |-> status],
          cmds |-> <<ListCmd>>, sleeps |-> <<>>]
    ELSE [ret |-> ExecResult(command, status, out),
          cmds |-> <<ListCmd, ExecCmd(container_name, command)>>,
          sleeps |-> GraceSleeps(status)]

\* execute_container_command
ExecuteContainerCommand(container_name, command, status, out) ==
    IF ~status.exists
    THEN [ret |-> [success |-> FALSE, stdout |-> "",
                   stderr |-> <<"Container '", container_name, "' not found">>,
                   return_code |-> -1, command |-> command, container_status |-> status],
          cmds |-> <<ListCmd>>, sleeps |-> <<>>]
    ELSE IF ~status.running
    THEN [ret |-> [success |-> FALSE, stdout |-> "",
                   stderr |-> <<"Container '", container_name,
                                "' is not running. Status: ", status.status>>,
                   return_code |-> -1, command |-> command, container_status |-> status],
          cmds |-> <<ListCmd>>, sleeps |-> <<>>]
    ELSE [ret |-> ExecResult(command, status, out),
          cmds |-> <<ListCmd, ExecCmd(container_name, command)>>,
          sleeps |-> GraceSleeps(status)]

\* execute_command: True / False, or the exception that leaves it.  Its
\* subprocess.run has no timeout: with a child that never ends it never returns.
ExecuteCommand(out) ==
    IF out.kind = "exit" THEN [raised |-> "none", value |-> out.rc = 0, blocked |-> FALSE]
    ELSE IF out.kind = "hang" THEN [raised |-> "none", value |-> FALSE, blocked |-> TRUE]
    ELSE IF out.exc = "FileNotFoundError"
    THEN [raised |-> "none", value |-> FALSE, blocked |-> FALSE]
    ELSE [raised |-> out.exc, value |-> FALSE, blocked |-> FALSE]

TemplatesPresent == {"t"}

\* os.path.join(PROJECTS_DIR, project_name)
ProjectDir(project_name) == <<"PROJECTS_DIR", "/", project_name>>

\* the names of the project directories
ProjectsNamed(projs) == {d.name : d \in projs}

\* the project directories after project_name got new contents
PutProject(projs, project_name, contents) ==
    {d \in projs : d.name # project_name}
    \cup {[name |-> project_name, contents |-> contents]}

\* variant of copytree that copies into an existing directory (dirs_exist_ok)
CopyTree_DirsExistOk(template_name, project_name, copyOut, projs) ==
    IF template_name \notin TemplatesPresent THEN "FileNotFoundError"
    ELSE IF copyOut = "ioerror" THEN "shutil.Error"
    ELSE "none"

\* shutil.copytree(template_path, project_path): the exception it raises
CopyTree(template_name, project_name, copyOut, projs) ==
    IF template_name \notin TemplatesPresent THEN "FileNotFoundError"
    ELSE IF project_name \in ProjectsNamed(projs) THEN "FileExistsError"
    ELSE IF copyOut = "ioerror" THEN "shutil.Error"
    ELSE "none"

\* deploy_app
DeployApp(template_name, project_name, container_name, port, copyOut, createOut, projs) ==
    IF CopyTree(template_name, project_name, copyOut, projs) # "none"
    THEN [raised |-> "RuntimeError", ret |-> NoRet, cmds |-> <<>>, sleeps |-> <<>>,
          blocked |-> FALSE,
          projects |-> IF CopyTree(template_name, project_name, copyOut, projs) = "shutil.Error"
                       THEN PutProject(projs, project_name, "partial") ELSE projs]
    ELSE IF ExecuteCommand(createOut).blocked
    THEN [raised |-> "none", ret |-> NoRet,
          cmds |-> <<DeployCmd(container_name, ProjectDir(project_name), port)>>, sleeps |-> <<>>,
          blocked |-> TRUE,
          projects |-> PutProject(projs, project_name, template_name)]
    ELSE IF ExecuteCommand(createOut).raised # "none"
    THEN [raised |-> "RuntimeError", ret |-> NoRet,
          cmds |-> <<DeployCmd(container_name, ProjectDir(project_name), port)>>, sleeps |-> <<>>,
          blocked |-> FALSE,
          projects |-> PutProject(projs, project_name, template_name)]
    ELSE [raised |-> "none",
          ret |-> [project_path |-> ProjectDir(project_name),
                   container_name |-> container_name,
                   port |-> port],
          cmds |-> <<DeployCmd(container_name, ProjectDir(project_name), port)>>, sleeps |-> <<>>,
          blocked |-> FALSE,
          projects |-> PutProject(projs, project_name, template_name)]

\* variant of restart_container that starts only after a stop that exited 0
RestartContainer_StopMustSucceed(container_name, stopOut, startOut) ==
    IF stopOut.kind # "exit" \/ stopOut.rc # 0
    THEN [ret |-> [success |-> FALSE, error |-> stopOut.kind],
          cmds |-> <<StopCmd(container_name)>>, sleeps |-> <<>>]
    ELSE [ret |-> [success |-> startOut.kind = "exit" /\ startOut.rc = 0,
                   error |-> startOut.kind],
          cmds |-> <<StopCmd(container_name), StartCmd(container_name)>>, sleeps |-> <<>>]

\* restart_container
RestartContainer(container_name, stopOut, startOut) ==
    IF stopOut.kind # "exit"
    THEN [ret |-> [success |-> FALSE, error |-> stopOut.kind],
          cmds |-> <<StopCmd(container_name)>>, sleeps |-> <<>>]
    ELSE IF startOut.kind # "exit"
    THEN [ret |-> [success |-> FALSE, error |-> startOut.kind],
          cmds |-> <<StopCmd(container_name), StartCmd(container_name)>>, sleeps |-> <<>>]
    ELSE [ret |-> [success |-> startOut.rc = 0, stop_output |-> stopOut.stdout,
                   start_output |-> startOut.stdout,
                   error |-> IF startOut.rc # 0 THEN startOut.stderr ELSE "None"],
          cmds |-> <<StopCmd(container_name), StartCmd(container_name)>>, sleeps |-> <<>>]

\* ensure_container_running: the sandbox is absent (lines 402-407)
EnsureAbsent(container_name) ==
    [ret |-> [success |-> FALSE, action |-> "check",
              error |-> <<"Container '", container_name, "' does not exist">>],
     cmds |-> <<ListCmd>>, sleeps |-> <<>>]

\* ensure_container_running: the sandbox is running (lines 409-414)
EnsureAlreadyRunning(status) ==
    [ret |-> [success |-> TRUE, action |-> "already_running", status |-> status.status],
     cmds |-> <<ListCmd>>, sleeps |-> <<>>]

\* variant of the start branch that reports the status read before the start
EnsureStart_StaleStatus(container_name, status, startOut, new_status) ==
    IF startOut.kind = "exit" /\ startOut.rc = 0
    THEN [ret |-> [success |-> TRUE, action |-> "started", status |-> status.status,
                   output |-> startOut.stdout],
          cmds |-> <<ListCmd, StartCmd(container_name), ListCmd>>, sleeps |-> <<3>>]
    ELSE [ret |-> [success |-> FALSE, action |-> "start_failed"],
          cmds |-> <<ListCmd, StartCmd(container_name)>>, sleeps |-> <<>>]

\* ensure_container_running: the sandbox exists and is not running (lines 416-459)
EnsureStart(container_name, status, startOut, new_status) ==
    IF startOut.kind = "timeout"
    THEN [ret |-> [success |-> FALSE, action |-> "timeout",
                   error |-> "Container start operation timed out"],
          cmds |-> <<ListCmd, StartCmd(container_name)>>, sleeps |-> <<>>]
    ELSE IF startOut.kind = "error"
    THEN [ret |-> [success |-> FALSE, action |-> "error", error |-> startOut.exc],
          cmds |-> <<ListCmd, StartCmd(container_name)>>, sleeps |-> <<>>]
    ELSE IF startOut.rc = 0
    THEN [ret |-> [success |-> TRUE, action |-> "started", status |-> new_status.status,
                   output |-> startOut.stdout],
          cmds |-> <<ListCmd, StartCmd(container_name), ListCmd>>, sleeps |-> <<3>>]
    ELSE [ret |-> [success |-> FALSE, action |-> "start_failed", error |-> startOut.stderr,
                   output |-> startOut.stdout],
          cmds |-> <<ListCmd, StartCmd(container_name)>>, sleeps |-> <<>>]

\* variant of ensure_container_running without the already-running return
EnsureContainerRunning_AlwaysStart(container_name, status, startOut, new_status) ==
    IF ~status.exists THEN EnsureAbsent(container_name)
    ELSE EnsureStart(container_name, status, startOut, new_status)

\* variant of ensure_container_running without the not-exists return
EnsureContainerRunning_StartAbsent(container_name, status, startOut, new_status) ==
    IF status.running THEN EnsureAlreadyRunning(status)
    ELSE EnsureStart(container_name, status, startOut, new_status)

\* ensure_container_running
EnsureContainerRunning(container_name, status, startOut, new_status) ==
    IF ~status.exists THEN EnsureAbsent(container_name)
    ELSE IF status.running THEN EnsureAlreadyRunning(status)
    ELSE EnsureStart(container_name, status, startOut, new_status)

\* dict.get(key): None when the key is absent
Get(d, key) == IF key \in DOMAIN d THEN d[key] ELSE "None"

\* get_container_status_for_project
GetContainerStatusForProject(container_name, status) ==
    [container_name |-> container_name, exists |-> status.exists,
     running |-> status.running, status |-> status.status,
     needs_start |-> status.exists /\ ~status.running,
     error |-> Get(status, "error")]

\* variant of the cleanup step that gives up once a step has raised
CleanupStep_AbortOnRaise(acc, step, out) ==
    IF \E i \in 1..Len(acc.errors) : acc.errors[i][2] = "raise" THEN acc
    ELSE [attempted |-> Append(acc.attempted, step),
          removed |-> IF out = "ok" THEN acc.removed \cup {step} ELSE acc.removed,
          errors |-> IF out = "ok" THEN acc.errors ELSE Append(acc.errors, <<step, out>>)]

\* delete_project_and_cleanup: one step, its outcome collected
CleanupStep(acc, step, out) ==
    [attempted |-> Append(acc.attempted, step),
     removed |-> IF out = "ok" THEN acc.removed \cup {step} ELSE acc.removed,
     errors |-> IF out = "ok" THEN acc.errors ELSE Append(acc.errors, <<step, out>>)]

\* delete_project_and_cleanup(container_name, project_path)
DeleteProjectAndCleanup(container_name, project_name, rmContainer, rmImage, rmFiles, projs) ==
    LET acc == CleanupStep(CleanupStep(CleanupStep(
                   [attempted |-> <<>>, removed |-> {}, errors |-> <<>>],
                   "container", rmContainer), "image", rmImage), "files", rmFiles)
    IN [raised |-> "none",
        ret |-> [container_removed |-> "container" \in acc.removed,
                 image_removed |-> "image" \in acc.removed,
                 files_removed |-> "files" \in acc.removed,
                 errors |-> acc.errors],
        attempted |-> acc.attempted,
        projects |-> IF "files" \in acc.removed
                     THEN {d \in projs : d.name # project_name} ELSE projs]

(***************************************************************************)
(* The callers: one action per docker_route function.  A call returns into *)
(* dcall; DockerReturn hands the result to the caller, after which the     *)
(* next call may start.                                                    *)
(***************************************************************************)
Commands == {"pnpm build"}
ProjectNames == {"x"}
TemplateNames == {"t", "missing"}
Ports == {8090}

\* outcomes of subprocess.run of exec (timeout=300)
ExecOutcomes ==
    {[kind |-> "exit", rc |-> 0, stdout |-> "out", stderr |-> ""],
     [kind |-> "exit", rc |-> 1, stdout |-> "", stderr |-> "fail"],
     [kind |-> "timeout"],
     [kind |-> "error", exc |-> "FileNotFoundError"],
     [kind |-> "error", exc |-> "OSError"]}

\* outcomes of subprocess.run of start / stop (timeout=60)
RunOutcomes ==
    {[kind |-> "exit", rc |-> 0, stdout |-> "out", stderr |-> ""],
     [kind |-> "exit", rc |-> 1, stdout |-> "", stderr |-> "fail"],
     [kind |-> "timeout"],
     [kind |-> "error", exc |-> "FileNotFoundError"]}

\* outcomes of subprocess.run of deploy (check=True, no timeout); "hang" is
\* a child that never ends
CreateOutcomes ==
    {[kind |-> "exit", rc |-> 0], [kind |-> "exit", rc |-> 1], [kind |-> "hang"],
     [kind |-> "error", exc |-> "FileNotFoundError"],
     [kind |-> "error", exc |-> "PermissionError"]}

CopyOutcomes == {"ok", "ioerror"}
StepOutcomes == {"ok", "fail", "raise"}

\* answers: what the runtime's listing held, as parsed, at each status query
\* the call made; env: what the other processes did
Call(op, name, r, answers, env) ==
    [op |-> op, name |-> name, ret |-> r.ret, raised |-> "none", cmds |-> r.cmds,
     sleeps |-> r.sleeps,
     answers |-> SubSeq(answers, 1, Cardinality({i \in 1..Len(r.cmds) : r.cmds[i] = ListCmd})),
     env |-> env]

CheckStatus(n) ==
    /\ dcall = NoCall
    /\ \E status \in StatusResults[n] :
         dcall' = Call("check_container_status", n,
                       [ret |-> status, cmds |-> <<ListCmd>>, sleeps |-> <<>>],
                       <<status>>, <<>>)
    /\ UNCHANGED <<projects, prev, toolVars, hostVars, db>>

GetStatusForProject(n) ==
    /\ dcall = NoCall
    /\ \E status \in StatusResults[n] :
         dcall' = Call("get_container_status_for_project", n,
                       [ret |-> GetContainerStatusForProject(n, status),
                        cmds |-> <<ListCmd>>, sleeps |-> <<>>],
                       <<status>>, <<>>)
    /\ UNCHANGED <<projects, prev, toolVars, hostVars, db>>

ExecCommand(n, command) ==
    /\ dcall = NoCall
    /\ \E status \in StatusResults[n], out \in ExecOutcomes :
         dcall' = Call("execute_container_command", n,
                       ExecuteContainerCommand(n, command, status, out),
                       <<status>>, [exec |-> out])
    /\ UNCHANGED <<projects, prev, toolVars, hostVars, db>>

Restart(n) ==
    /\ dcall = NoCall
    /\ \E stopOut \in RunOutcomes, startOut \in RunOutcomes :
         dcall' = Call("restart_container", n, RestartContainer(n, stopOut, startOut),
                       <<>>, [stop |-> stopOut, start |-> startOut])
    /\ UNCHANGED <<projects, prev, toolVars, hostVars, db>>

Ensure(n) ==
    /\ dcall = NoCall
    /\ \E status \in StatusResults[n], startOut \in RunOutcomes,
          new_status \in StatusResults[n] :
         dcall' = Call("ensure_container_running", n,
                       EnsureContainerRunning(n, status, startOut, new_status),
                       <<status, new_status>>, [start |-> startOut])
    /\ UNCHANGED <<projects, prev, toolVars, hostVars, db>>

DeployCall(n, r, env) ==
    /\ dcall' = [op |-> "deploy_app", name |-> n, ret |-> r.ret, raised |-> r.raised,
                 cmds |-> r.cmds, sleeps |-> r.sleeps, answers |-> <<>>, env |-> env,
                 blocked |-> r.blocked]
    /\ projects' = r.projects

Deploy(template_name, project_name, n, port) ==
    /\ dcall = NoCall
    /\ \E copyOut \in CopyOutcomes, createOut \in CreateOutcomes :
         DeployCall(n, DeployApp(template_name, project_name, n, port, copyOut,
                                 createOut, projects),
                    [copy |-> CopyTree(template_name, project_name, copyOut, projects),
                     create |-> createOut, project |-> project_name, before |-> projects])
    /\ UNCHANGED <<prev, toolVars, hostVars, db>>

CleanupCall(n, r, env) ==
    /\ dcall' = [op |-> "delete_project_and_cleanup", name |-> n, ret |-> r.ret,
                 raised |-> r.raised, cmds |-> <<>>, sleeps |-> <<>>, answers |-> <<>>,
                 env |-> env, attempted |-> r.attempted]
    /\ projects' = r.projects

Cleanup(n, project_name) ==
    /\ dcall = NoCall
    /\ \E rmContainer \in StepOutcomes, rmImage \in StepOutcomes, rmFiles \in StepOutcomes :
         CleanupCall(n, DeleteProjectAndCleanup(n, project_name, rmContainer, rmImage,
                                                rmFiles, projects),
                     [container |-> rmContainer, image |-> rmImage, files |-> rmFiles])
    /\ UNCHANGED <<prev, toolVars, hostVars, db>>

\* what the caller keeps of a call once it has returned
Summary(c) ==
    [op |-> c.op, name |-> c.name,
     running |-> c.answers # <<>> /\ c.answers[1].running,
     success |-> Get(c.ret, "success"),
     action |-> Get(c.ret, "action"),
     starts |-> Cardinality({i \in 1..Len(c.cmds) : c.cmds[i].sub = "start"})]

\* the call never returns: it waits for a child that never ends
IsBlocked(c) == "blocked" \in DOMAIN c /\ c.blocked

DockerReturn ==
    /\ dcall # NoCall
    /\ ~IsBlocked(dcall)
    /\ prev' = Summary(dcall)
    /\ dcall' = NoCall
    /\ UNCHANGED <<projects, toolVars, hostVars, db>>

Init ==
    /\ files = InitFiles
    /\ dirs = InitDirs
    /\ toolCall = NoCall
    /\ projects = {}
    /\ dcall = NoCall
    /\ prev = NoCall
    /\ cwd = Cwd
    /\ threads = NoThreads
    /\ db = NoRows
    /\ session = NoSession

Next ==
    \/ \E n \in ContainerNames : CheckStatus(n)
    \/ \E n \in ContainerNames : GetStatusForProject(n)
    \/ \E n \in ContainerNames, command \in Commands : ExecCommand(n, command)
    \/ \E n \in ContainerNames : Restart(n)
    \/ \E n \in ContainerNames : Ensure(n)
    \/ \E t \in TemplateNames, p \in ProjectNames, n \in ContainerNames, port \in Ports :
         Deploy(t, p, n, port)
    \/ \E n \in ContainerNames, p \in ProjectNames : Cleanup(n, p)
    \/ DockerReturn

Spec == Init /\ [][Next]_vars

(***************************************************************************)
(* Properties of docker_route.py                                           *)
(***************************************************************************)
Subs(c) == {c.cmds[i].sub : i \in 1..Len(c.cmds)}
CountSub(c, sub) == Cardinality({i \in 1..Len(c.cmds) : c.cmds[i].sub = sub})
IsExec == dcall # NoCall /\ dcall.op = "execute_container_command"
IsEnsure == dcall # NoCall /\ dcall.op = "ensure_container_running"
IsRestart == dcall # NoCall /\ dcall.op = "restart_container"
IsDeploy == dcall # NoCall /\ dcall.op = "deploy_app"
IsCleanup == dcall # NoCall /\ dcall.op = "delete_project_and_cleanup"

\* C2: execute_container_command spawns exec only if the status query of the
\* same call reported exists and running; an absent sandbox gives
\* success=false with the not-found message, a sandbox that is not running
\* gives success=false with a message holding "not running" and the current
\* status text, and neither spawns exec.
C2_CommandGating ==
    IsExec =>
      /\ "exec" \in Subs(dcall) => (dcall.answers[1].exists /\ dcall.answers[1].running)
      /\ ~dcall.answers[1].exists =>
           /\ dcall.ret.success = FALSE
           /\ dcall.ret.stderr = <<"Container '", dcall.name, "' not found">>
           /\ "exec" \notin Subs(dcall)
      /\ (dcall.answers[1].exists /\ ~dcall.answers[1].running) =>
           /\ dcall.ret.success = FALSE
           /\ Len(dcall.ret.stderr) = 4
           /\ dcall.ret.stderr[3] = "' is not running. Status: "
           /\ dcall.ret.stderr[4] = dcall.answers[1].status
           /\ "exec" \notin Subs(dcall)

C2_Witness ==
    /\ IsExec
    /\ dcall.answers[1].exists
    /\ ~dcall.answers[1].running
    /\ dcall.answers[1].status = TxtExited

\* C3: deploy returns {projectPath, sandboxName, port} only when both the
\* template copy and the create command succeeded; when the copy raises or
\* the create step fails (non-zero exit, or the binary missing) deploy raises
\* a single DeploymentFailure.
C3_DeployFailure ==
    IsDeploy =>
      /\ dcall.raised = "none" <=>
           (dcall.env.copy = "none" /\ dcall.env.create.kind = "exit"
            /\ dcall.env.create.rc = 0)
      /\ dcall.raised \in {"none", "RuntimeError"}

C5_EnsureIdempotent ==
    (/\ IsEnsure /\ dcall.answers[1].running
     /\ prev # NoCall /\ prev.op = "ensure_container_running"
     /\ prev.name = dcall.name /\ prev.running) =>
      /\ prev.success = TRUE /\ prev.action = "already_running" /\ prev.starts = 0
      /\ dcall.ret.success = TRUE /\ dcall.ret.action = "already_running"
      /\ "start" \notin Subs(dcall)

C5_Witness ==
    /\ IsEnsure /\ dcall.answers[1].running
    /\ prev # NoCall /\ prev.op = "ensure_container_running"
    /\ prev.name = dcall.name /\ prev.running

\* C6: when the status query reports that the sandbox does not exist,
\* ensure_container_running returns success=false and issues neither start
\* nor deploy; the deploy command is issued by deploy_app only.
C6_NoImplicitCreate ==
    /\ (IsEnsure /\ ~dcall.answers[1].exists) =>
         (dcall.ret.success = FALSE /\ dcall.cmds = <<ListCmd>>)
    /\ (dcall # NoCall /\ "deploy" \in Subs(dcall)) => dcall.op = "deploy_app"

C6_Witness ==
    /\ IsEnsure
    /\ ~dcall.answers[1].exists
    /\ dcall.ret.action = "check"

\* C7: for a sandbox that exists and is not running, ensure_container_running
\* issues exactly one start; if it succeeds the call waits, queries the status
\* again after the start and reports that re-queried status; if it fails the
\* call returns success=false.
C7_EnsureStartsAndRequeries ==
    (IsEnsure /\ dcall.answers[1].exists /\ ~dcall.answers[1].running) =>
      /\ CountSub(dcall, "start") = 1
      /\ (dcall.env.start.kind = "exit" /\ dcall.env.start.rc = 0) =>
           /\ dcall.cmds = <<ListCmd, StartCmd(dcall.name), ListCmd>>
           /\ dcall.sleeps = <<3>>
           /\ dcall.ret.success = TRUE
           /\ dcall.ret.status = dcall.answers[2].status
      /\ ~(dcall.env.start.kind = "exit" /\ dcall.env.start.rc = 0) =>
           dcall.ret.success = FALSE

C7_Witness ==
    /\ IsEnsure
    /\ dcall.answers[1].exists /\ ~dcall.answers[1].running
    /\ dcall.ret.action = "started"
    /\ dcall.answers[2].status # dcall.answers[1].status
    /\ dcall.ret.status = UpText(1)

\* C27: whenever ensure_container_running returns success = true, the last
\* status query made within the call reported the sandbox as running; a
\* start that exits 0 while the status queried afterwards is not running, or
\* not found, is not reported as success.
C27_SuccessMeansRunning ==
    (IsEnsure /\ dcall.ret.success) => dcall.answers[Len(dcall.answers)].running

\* the start command of the call was run and exited with code 0
StartExitedZero ==
    /\ "start" \in Subs(dcall)
    /\ dcall.env.start.kind = "exit" /\ dcall.env.start.rc = 0

\* C8 as stated: restart_container invokes stop and then start whatever the
\* outcome of the stop step (non-zero exit, timeout or exception), and its
\* success flag is true exactly when the start command exited with code 0.
C8_RestartAlwaysStarts ==
    IsRestart =>
      /\ dcall.cmds = <<StopCmd(dcall.name), StartCmd(dcall.name)>>
      /\ dcall.ret.success <=> StartExitedZero

\* C8 amended: restart_container invokes stop first; start is attempted exactly
\* when the stop process returned, whatever its exit code; when stop times
\* out or raises, start is not attempted and the result is success=false;
\* success is true exactly when start was run and exited with code 0.
C8_RestartStartsAfterStopReturns ==
    IsRestart =>
      /\ dcall.cmds[1] = StopCmd(dcall.name)
      /\ dcall.env.stop.kind = "exit" =>
           /\ dcall.cmds = <<StopCmd(dcall.name), StartCmd(dcall.name)>>
           /\ dcall.ret.success <=> StartExitedZero
      /\ dcall.env.stop.kind # "exit" =>
           /\ dcall.cmds = <<StopCmd(dcall.name)>>
           /\ dcall.ret.success = FALSE

C8_Witness ==
    /\ IsRestart
    /\ dcall.env.stop.kind = "exit" /\ dcall.env.stop.rc # 0
    /\ StartExitedZero
    /\ dcall.ret.success

\* C9: delete_project_and_cleanup attempts all three steps whatever fails,
\* never raises, and returns one boolean per step plus the collected errors;
\* when container removal succeeds and image removal throws, directory
\* removal is still attempted and the result has container_removed=true,
\* image_removed=false and a non-empty errors list.
C9_CleanupCollects ==
    IsCleanup =>
      /\ dcall.attempted = <<"container", "image", "files">>
      /\ dcall.raised = "none"
      /\ dcall.ret.container_removed <=> dcall.env.container = "ok"
      /\ dcall.ret.image_removed <=> dcall.env.image = "ok"
      /\ dcall.ret.files_removed <=> dcall.env.files = "ok"
      /\ Len(dcall.ret.errors) =
           Cardinality({st \in {"container", "image", "files"} : dcall.env[st] # "ok"})

C9_Witness ==
    /\ IsCleanup
    /\ dcall.env.container = "ok" /\ dcall.env.image = "raise"
    /\ dcall.ret.container_removed /\ ~dcall.ret.image_removed
    /\ dcall.ret.errors # <<>>
    /\ dcall.attempted[3] = "files"

\* C10: every status returned by check_container_status and by
\* get_container_status_for_project satisfies running => exists.
C10_RunningImpliesExists ==
    (dcall # NoCall
     /\ dcall.op \in {"check_container_status", "get_container_status_for_project"}) =>
      (dcall.ret.running => dcall.ret.exists)

C10_Witness ==
    /\ dcall # NoCall
    /\ dcall.op = "get_container_status_for_project"
    /\ dcall.ret.running /\ dcall.ret.exists

(***************************************************************************)
(* check_container_status on the raw listing: the listing the runtime      *)
(* printed is kept next to the parsed result                               *)
(***************************************************************************)
\* lines of a listing, with status texts that hold "up" inside a longer word
ParseLines ==
    {<<"-", " ">> \o Marker(n) : n \in ContainerNames}
    \cup {TxtStatus \o <<" ">> \o t :
             t \in {UpText(29), TxtExited, TxtInterrupted, TxtStartupFailed}}
    \cup {<<>>, TxtImage \o <<" ", "i">>, <<" ", " ">> \o TxtPorts \o <<" ", "p", " ">>,
          TxtSubdomain \o <<" ", "s">>}

ParseListings == {JoinWith(ls, <<"\n">>) : ls \in Strs(ParseLines, MaxLines)}

\* outcomes of the listing process; a failing runtime may still have printed
ParseOutcomes ==
    {[kind |-> "exit", rc |-> rc, stdout |-> l, stderr |-> ""] :
        rc \in {0, 1}, l \in ParseListings}
    \cup {[kind |-> "exit", rc |-> 1, stdout |-> <<>>, stderr |-> "boom"]}
    \cup {[kind |-> "timeout"], [kind |-> "error", exc |-> "FileNotFoundError"]}

ParseResults ==
    [n \in ContainerNames |-> [o \in ParseOutcomes |-> CheckContainerStatus(n, o)]]

CheckStatusRaw(n) ==
    /\ dcall = NoCall
    /\ \E out \in ParseOutcomes :
         dcall' = Call("check_container_status", n,
                       [ret |-> ParseResults[n][out], cmds |-> <<ListCmd>>,
                        sleeps |-> <<>>],
                       <<ParseResults[n][out]>>, [list |-> out])
    /\ UNCHANGED <<projects, prev, toolVars, hostVars, db>>

NextParse ==
    \/ \E n \in ContainerNames : CheckStatusRaw(n)
    \/ DockerReturn

SpecParse == Init /\ [][NextParse]_vars

(***************************************************************************)
(* Properties of check_container_status                                    *)
(***************************************************************************)
IsParse ==
    /\ dcall # NoCall
    /\ dcall.op = "check_container_status"
    /\ "list" \in DOMAIN dcall.env

\* the listing parsed, as lines
RawLines == Split(dcall.env.list.stdout, "\n")

\* the words of a text, lower-cased
Words(t) == {Split(Lower(t), " ")[i] : i \in 1..Len(Split(Lower(t), " "))}

\* C11: for a matched container, running is true exactly when its Status
\* value holds "running" or "up" as a word, compared case-insensitively; a
\* value holding those letters only inside a longer word, or not at all,
\* gives running = false.
C11_RunningIffToken ==
    (IsParse /\ dcall.ret.exists) =>
      (dcall.ret.running <=> (Words(dcall.ret.status) \cap {TxtRunning, TxtUp} # {}))

\* the name-marker line that opens a container's block
MarkerLine(n) == <<"-", " ">> \o Marker(n)

IsMarkerLine(l) == \E n \in ContainerNames : Strip(l) = MarkerLine(n)

\* index of the first marker line of the requested container, 0 when none
BlockStart(lines, n) ==
    IF \E i \in 1..Len(lines) : Strip(lines[i]) = MarkerLine(n)
    THEN CHOOSE i \in 1..Len(lines) :
           /\ Strip(lines[i]) = MarkerLine(n)
           /\ \A k \in 1..(i - 1) : Strip(lines[k]) # MarkerLine(n)
    ELSE 0

\* the lines after the requested container's marker line and before the
\* first following marker line or blank line
BlockOf(lines, n) ==
    {i \in (BlockStart(lines, n) + 1)..Len(lines) :
        /\ BlockStart(lines, n) > 0
        /\ \A k \in (BlockStart(lines, n) + 1)..i :
             ~IsMarkerLine(lines[k]) /\ Strip(lines[k]) # <<>>}

\* the value a detail line gives for a key
ValueAfter(l, key) == Strip(SubSeq(Strip(l), Len(key) + 1, Len(Strip(l))))

FromBlock(value, key) ==
    \E i \in BlockOf(RawLines, dcall.name) :
       /\ StartsWith(Strip(RawLines[i]), key)
       /\ value = ValueAfter(RawLines[i], key)

NoBlockMatches ==
    \A i \in 1..Len(RawLines) : ~Contains(Marker(dcall.name), RawLines[i])

\* C13: check_container_status never raises; when no block matches the
\* requested name, or the listing command exits non-zero, times out or cannot
\* be run, the result is exists = false and running = false with an error
\* text, and holds nothing parsed from the output.
C13_FailureIsNotFound ==
    IsParse =>
      /\ dcall.raised = "none"
      /\ (dcall.env.list.kind # "exit" \/ dcall.env.list.rc # 0 \/ NoBlockMatches) =>
           /\ ~dcall.ret.exists
           /\ ~dcall.ret.running
           /\ DOMAIN dcall.ret = {"exists", "status", "running", "error"}
           /\ dcall.ret.error # <<>>

\* the listing command failed after printing a block of the requested container
C13_Witness ==
    /\ IsParse
    /\ dcall.env.list.kind = "exit" /\ dcall.env.list.rc = 1
    /\ ~NoBlockMatches
    /\ \E i \in 1..Len(RawLines) : StartsWith(RawLines[i], TxtStatus \o <<" ">> \o TxtUpCap)
    /\ ~dcall.ret.exists /\ ~dcall.ret.running

(***************************************************************************)
(* tools.py: run_command_tool                                              *)
(***************************************************************************)
TxtCommandNotFound ==
    <<"s", "h", ":", " ", "c", "o", "m", "m", "a", "n", "d", " ", "n", "o", "t", " ",
      "f", "o", "u", "n", "d">>
TxtPermissionDenied ==
    <<"P", "e", "r", "m", "i", "s", "s", "i", "o", "n", " ", "d", "e", "n", "i", "e", "d">>
TxtLowCommandNotFound == Lower(SubSeq(TxtCommandNotFound, 5, Len(TxtCommandNotFound)))
TxtLowPermissionDenied == Lower(TxtPermissionDenied)

\* project roots of the sessions: /p exists, /q was never deployed
ProjectPaths == {ProjectPath, <<"/", "q">>}

HostCommands == {"ls", "sleep 60"}

\* outcomes of subprocess.run(command, shell=True, timeout=30)
HostOutcomes ==
    {[kind |-> "exit", rc |-> 0, stdout |-> "out", stderr |-> <<>>],
     [kind |-> "exit", rc |-> 127, stdout |-> "", stderr |-> TxtCommandNotFound],
     [kind |-> "exit", rc |-> 1, stdout |-> "", stderr |-> TxtPermissionDenied],
     [kind |-> "timeout"],
     [kind |-> "error", exc |-> "ValueError"]}

\* os.getcwd(): it raises when the working directory has been removed
GetcwdOutcomes == {"ok", "FileNotFoundError"}

\* the suggestion appended for a failed command (lines 126-130)
HostSuggestion(out) ==
    IF out.rc = 0 THEN "none"
    ELSE IF Contains(TxtLowCommandNotFound, Lower(out.stderr)) THEN "command not found"
    ELSE IF Contains(TxtLowPermissionDenied, Lower(out.stderr)) THEN "permission denied"
    ELSE "none"

\* the part of run_command_tool after os.chdir(project_path) succeeded
RunCommandInside(project_path, command, out, original_cwd) ==
    IF out.kind = "timeout"
    THEN [obs |-> Obs("Error: Command timed out after 30 seconds", <<>>),
          raised |-> "none", cwd |-> original_cwd, ran_in |-> <<project_path>>]
    ELSE IF out.kind = "error"
    THEN [obs |-> Obs("Error running command: {e}", <<out.exc>>),
          raised |-> "none", cwd |-> original_cwd, ran_in |-> <<project_path>>]
    ELSE [obs |-> Obs("Host Command Executed",
                      <<command, project_path, out.rc = 0, out.rc, out.stdout,
                        out.stderr, HostSuggestion(out)>>),
          raised |-> "none", cwd |-> original_cwd, ran_in |-> <<project_path>>]

\* variant of run_command_tool whose timeout handler does not change back
RunCommandTool_TimeoutKeepsDir(project_path, command, getcwdOut, out, cwd0, D, F) ==
    IF getcwdOut # "ok"
    THEN [obs |-> Obs("none", <<>>), raised |-> "UnboundLocalError", cwd |-> cwd0,
          ran_in |-> <<>>]
    ELSE IF ~PathIsDir(project_path, D, F)
    THEN [obs |-> Obs("Error running command: {e}", <<"FileNotFoundError">>),
          raised |-> "none", cwd |-> cwd0, ran_in |-> <<>>]
    ELSE IF out.kind = "timeout"
    THEN [obs |-> Obs("Error: Command timed out after 30 seconds", <<>>),
          raised |-> "none", cwd |-> project_path, ran_in |-> <<project_path>>]
    ELSE RunCommandInside(project_path, command, out, cwd0)

\* run_command_tool.  When os.getcwd() raises, the handler's
\* os.chdir(original_cwd) reads a name that was never bound, and that error
\* leaves the tool.
RunCommandTool(project_path, command, getcwdOut, out, cwd0, D, F) ==
    IF getcwdOut # "ok"
    THEN [obs |-> Obs("none", <<>>), raised |-> "UnboundLocalError", cwd |-> cwd0,
          ran_in |-> <<>>]
    ELSE IF ~PathIsDir(project_path, D, F)
    THEN [obs |-> Obs("Error running command: {e}", <<"FileNotFoundError">>),
          raised |-> "none", cwd |-> cwd0, ran_in |-> <<>>]
    ELSE RunCommandInside(project_path, command, out, cwd0)

RunCommandResult(project_path, command, getcwdOut, out, r) ==
    /\ toolCall' = [tool |-> "run_command", project_path |-> project_path,
                    command |-> command, obs |-> r.obs, raised |-> r.raised,
                    cwd_before |-> cwd, ran_in |-> r.ran_in,
                    env |-> [getcwd |-> getcwdOut,
                             run |-> IF r.ran_in = <<>> THEN [kind |-> "none"] ELSE out]]
    /\ cwd' = r.cwd

RunCommand(project_path, command) ==
    /\ toolCall = NoCall
    /\ \A t \in Threads : threads[t].pc = "idle"
    /\ \E getcwdOut \in GetcwdOutcomes, out \in HostOutcomes :
         RunCommandResult(project_path, command, getcwdOut, out,
                          RunCommandTool(project_path, command, getcwdOut, out, cwd,
                                         dirs, files))
    /\ UNCHANGED <<files, dirs, projects, dcall, prev, threads, db, session>>

(***************************************************************************)
(* tools.py: the container tools and get_project_info_tool                 *)
(***************************************************************************)
\* container_name of the session: None for a project without a container
NoContainer == <<>>
SessionContainers == {NoContainer, <<"a">>}

\* list_all_containers
ListAllContainers(out) ==
    IF out.kind = "exit"
    THEN [success |-> out.rc = 0, output |-> out.stdout,
          error |-> IF out.rc # 0 THEN out.stderr ELSE "None"]
    ELSE [success |-> FALSE, output |-> "", error |-> out.kind]

\* outcomes of the listing process as list_all_containers sees it
ListAllOutcomes ==
    {[kind |-> "exit", rc |-> 0, stdout |-> "listing", stderr |-> ""],
     [kind |-> "exit", rc |-> 1, stdout |-> "", stderr |-> "boom"],
     [kind |-> "timeout"], [kind |-> "error", exc |-> "FileNotFoundError"]}

TxtDotGit == <<".", "g", "i", "t">>
CommonFiles ==
    <<<<"p", "a", "c", "k", "a", "g", "e", ".", "j", "s", "o", "n">>,
      <<"t", "s", "c", "o", "n", "f", "i", "g", ".", "j", "s", "o", "n">>,
      <<"v", "i", "t", "e", ".", "c", "o", "n", "f", "i", "g", ".", "t", "s">>,
      <<"n", "e", "x", "t", ".", "c", "o", "n", "f", "i", "g", ".", "j", "s">>>>

\* the directories os.walk(project_path) visits below the root: those with
\* no component starting with "."
WalkedDirs(root, D) ==
    {d \in D : /\ Len(d) > Len(root) /\ SubSeq(d, 1, Len(root)) = root
               /\ \A i \in (Len(root) + 1)..Len(d) : ~StartsWith(d[i], DOT)}

\* the lines about the container in get_project_info_tool (lines 147-161)
ContainerInfo(container_name, status) ==
    IF container_name = NoContainer THEN <<>>
    ELSE IF status.exists
    THEN <<container_name, status.status, status.running,
           Get(status, "image"), Get(status, "ports")>>
    ELSE <<container_name, "Container not found or not managed by dock-route">>

\* get_project_info_tool
GetProjectInfoTool(container_name, status, D, F) ==
    LET root == Lookup(ProjectPath, D, F).at
        walked == WalkedDirs(root, D)
    IN [obs |-> Obs("Project Path: {project_path} ...",
                    <<ProjectPath, ContainerInfo(container_name, status),
                      PathExists(PathJoin(ProjectPath, TxtDotGit), D, F),
                      {i \in 1..Len(CommonFiles) :
                          PathExists(PathJoin(ProjectPath, CommonFiles[i]), D, F)},
                      Cardinality({f \in DOMAIN F :
                                      /\ Front(f) \in walked \cup {root}
                                      /\ ~StartsWith(Last(f), DOT)}),
                      Cardinality(walked)>>),
        raised |-> "none",
        cmds |-> IF container_name = NoContainer THEN <<>> ELSE <<ListCmd>>,
        sleeps |-> <<>>]

ManageActions == {"status", "restart", "list", " Status ", "start"}

\* action.lower().strip() on the actions explored
NormalizedAction(action) == IF action = " Status " THEN "status" ELSE action

\* manage_container_tool, action "status" (lines 194-206)
ManageStatus(container_name, status) ==
    [obs |-> IF status.exists
             THEN Obs("Container Status for '{container_name}': Exists: Yes ...",
                      <<container_name, status.status, status.running,
                        Get(status, "image"), Get(status, "ports")>>)
             ELSE Obs("Container Status for '{container_name}': Exists: No ...",
                      <<container_name, status.error>>),
     raised |-> "none", cmds |-> <<ListCmd>>, sleeps |-> <<>>]

\* manage_container_tool
ManageContainerTool(container_name, action, status, stopOut, startOut, listOut) ==
    IF container_name = NoContainer
    THEN [obs |-> Obs("Error: No Docker container associated with this project", <<>>),
          raised |-> "none", cmds |-> <<>>, sleeps |-> <<>>]
    ELSE IF NormalizedAction(action) = "status" THEN ManageStatus(container_name, status)
    ELSE IF NormalizedAction(action) = "restart"
    THEN [obs |-> IF RestartContainer(container_name, stopOut, startOut).ret.success
                  THEN Obs("Container '{container_name}' restarted successfully",
                           <<container_name>>)
                  ELSE Obs("Failed to restart container '{container_name}': {error}",
                           <<container_name,
                             RestartContainer(container_name, stopOut, startOut).ret.error>>),
          raised |-> "none",
          cmds |-> RestartContainer(container_name, stopOut, startOut).cmds,
          sleeps |-> <<>>]
    ELSE IF NormalizedAction(action) = "list"
    THEN [obs |-> IF ListAllContainers(listOut).success
                  THEN Obs("All Containers:\n{output}", <<ListAllContainers(listOut).output>>)
                  ELSE Obs("Failed to list containers: {error}",
                           <<ListAllContainers(listOut).error>>),
          raised |-> "none", cmds |-> <<ListCmd>>, sleeps |-> <<>>]
    ELSE [obs |-> Obs("Unknown action '{action}'. Available actions: status, restart, list",
                      <<NormalizedAction(action)>>),
          raised |-> "none", cmds |-> <<>>, sleeps |-> <<>>]

WaitActions == {"wait", "Wait", "retry"}

\* variant of wait_and_retry_tool that waits under the executor's condition
WaitAndRetryTool_Under30(container_name, action, status, new_status) ==
    IF container_name = NoContainer
    THEN [obs |-> Obs("Error: No Docker container associated with this project", <<>>),
          raised |-> "none", cmds |-> <<>>, sleeps |-> <<>>]
    ELSE IF action \notin {"wait", "Wait"}
    THEN [obs |-> Obs("Unknown action '{action}'. Available actions: wait", <<action>>),
          raised |-> "none", cmds |-> <<>>, sleeps |-> <<>>]
    ELSE IF ~(status.exists /\ status.running)
    THEN [obs |-> Obs("Container is not running. Status: {status}", <<status.status>>),
          raised |-> "none", cmds |-> <<ListCmd>>, sleeps |-> <<>>]
    ELSE IF GraceSleeps(status) # <<>>
    THEN [obs |-> Obs("Container initialization wait completed. New status: {status}",
                      <<new_status.status>>),
          raised |-> "none", cmds |-> <<ListCmd, ListCmd>>, sleeps |-> <<10>>]
    ELSE [obs |-> Obs("Container appears to be fully initialized. Status: {status}",
                      <<status.status>>),
          raised |-> "none", cmds |-> <<ListCmd>>, sleeps |-> <<>>]

\* wait_and_retry_tool
WaitAndRetryTool(container_name, action, status, new_status) ==
    IF container_name = NoContainer
    THEN [obs |-> Obs("Error: No Docker container associated with this project", <<>>),
          raised |-> "none", cmds |-> <<>>, sleeps |-> <<>>]
    ELSE IF action \notin {"wait", "Wait"}
    THEN [obs |-> Obs("Unknown action '{action}'. Available actions: wait", <<action>>),
          raised |-> "none", cmds |-> <<>>, sleeps |-> <<>>]
    ELSE IF ~(status.exists /\ status.running)
    THEN [obs |-> Obs("Container is not running. Status: {status}", <<status.status>>),
          raised |-> "none", cmds |-> <<ListCmd>>, sleeps |-> <<>>]
    ELSE IF Contains(TxtUp, Lower(status.status)) /\ Contains(TxtSecond, Lower(status.status))
    THEN [obs |-> Obs("Container initialization wait completed. New status: {status}",
                      <<new_status.status>>),
          raised |-> "none", cmds |-> <<ListCmd, ListCmd>>, sleeps |-> <<10>>]
    ELSE [obs |-> Obs("Container appears to be fully initialized. Status: {status}",
                      <<status.status>>),
          raised |-> "none", cmds |-> <<ListCmd>>, sleeps |-> <<>>]

\* the suggestion chosen from the result's stderr (lines 283-294), for the
\* messages execute_container_command builds and the commands explored
ContainerSuggestion(ret) ==
    IF ret.success THEN "none"
    ELSE IF ret.stderr[1] \in {"Container '", "dock-route executable not found at "}
    THEN "might not be running"
    ELSE "none"

\* execute_container_command_tool
ExecuteContainerCommandTool(container_name, command, status, out) ==
    IF container_name = NoContainer
    THEN [obs |-> Obs("Error: No Docker container associated with this project", <<>>),
          raised |-> "none", cmds |-> <<>>, sleeps |-> <<>>]
    ELSE [obs |-> Obs("Container Command Executed",
                      <<ExecuteContainerCommand(container_name, command, status, out).ret,
                        ContainerSuggestion(
                          ExecuteContainerCommand(container_name, command, status, out).ret)>>),
          raised |-> "none",
          cmds |-> ExecuteContainerCommand(container_name, command, status, out).cmds,
          sleeps |-> ExecuteContainerCommand(container_name, command, status, out).sleeps]

\* the container tools never touch the file system: they are explored while
\* at most this many of its nodes were changed
MaxFsChangesSeen == 0

\* the statuses a session's status query may get
SessionStatuses(container_name) ==
    IF container_name = NoContainer THEN {FoundInfo} ELSE StatusResults[container_name]

\* answers: the statuses read by the status queries the tool made
ContainerToolCall(tool, container_name, input, r, answers) ==
    [tool |-> tool, container_name |-> container_name, input |-> input, obs |-> r.obs,
     raised |-> r.raised, cmds |-> r.cmds, sleeps |-> r.sleeps,
     answers |-> SubSeq(answers, 1,
                        IF Len(r.cmds) = 2 /\ r.cmds[2] = ListCmd THEN 2
                        ELSE IF r.cmds # <<>> /\ r.cmds[1] = ListCmd /\ tool # "manage_container"
                        THEN 1
                        ELSE IF tool = "manage_container" /\ input \in {"status", " Status "}
                             /\ r.cmds # <<>>
                        THEN 1 ELSE 0)]

GetProjectInfo(container_name) ==
    /\ toolCall = NoCall
    /\ \E status \in SessionStatuses(container_name) :
         toolCall' = ContainerToolCall("get_project_info", container_name, "",
                                       GetProjectInfoTool(container_name, status, dirs, files),
                                       <<status>>)
    /\ UNCHANGED <<files, dirs, projects, dcall, prev, hostVars, db>>

ManageContainer(container_name, action) ==
    /\ toolCall = NoCall
    /\ FsChanges <= MaxFsChangesSeen
    /\ \E status \in SessionStatuses(container_name), stopOut \in RunOutcomes,
          startOut \in RunOutcomes, listOut \in ListAllOutcomes :
         toolCall' = ContainerToolCall("manage_container", container_name, action,
                                       ManageContainerTool(container_name, action, status,
                                                           stopOut, startOut, listOut),
                                       <<status>>)
    /\ UNCHANGED <<files, dirs, projects, dcall, prev, hostVars, db>>

WaitAndRetry(container_name, action) ==
    /\ toolCall = NoCall
    /\ FsChanges <= MaxFsChangesSeen
    /\ \E status \in SessionStatuses(container_name),
          new_status \in SessionStatuses(container_name) :
         toolCall' = ContainerToolCall("wait_and_retry", container_name, action,
                                       WaitAndRetryTool(container_name, action, status,
                                                        new_status),
                                       <<status, new_status>>)
    /\ UNCHANGED <<files, dirs, projects, dcall, prev, hostVars, db>>

ExecuteContainerCommandCall(container_name, command) ==
    /\ toolCall = NoCall
    /\ FsChanges <= MaxFsChangesSeen
    /\ \E status \in SessionStatuses(container_name), out \in ExecOutcomes :
         toolCall' = ContainerToolCall("execute_container_command", container_name, command,
                                       ExecuteContainerCommandTool(container_name, command,
                                                                   status, out),
                                       <<status>>)
    /\ UNCHANGED <<files, dirs, projects, dcall, prev, hostVars, db>>

\* the tools get_tools_for_project hands to the agent, called one at a time
NextTools ==
    \/ \E file_path \in PathInputs : ReadFile(file_path)
    \/ \E input_str \in WriteInputs : WriteFile(input_str)
    \/ \E directory \in PathInputs : ListFiles(directory)
    \/ \E project_path \in ProjectPaths, command \in HostCommands :
         RunCommand(project_path, command)
    \/ \E container_name \in SessionContainers : GetProjectInfo(container_name)
    \/ \E container_name \in SessionContainers, action \in ManageActions :
         ManageContainer(container_name, action)
    \/ \E container_name \in SessionContainers, action \in WaitActions :
         WaitAndRetry(container_name, action)
    \/ \E container_name \in SessionContainers, command \in Commands :
         ExecuteContainerCommandCall(container_name, command)
    \/ ToolReturn

SpecTools == InitTools /\ [][NextTools]_vars

\* the container tools alone, for a session whose project files do not change
NextContainerTools ==
    \/ \E container_name \in SessionContainers : GetProjectInfo(container_name)
    \/ \E container_name \in SessionContainers, action \in ManageActions :
         ManageContainer(container_name, action)
    \/ \E container_name \in SessionContainers, action \in WaitActions :
         WaitAndRetry(container_name, action)
    \/ \E container_name \in SessionContainers, command \in Commands :
         ExecuteContainerCommandCall(container_name, command)
    \/ ToolReturn

SpecContainerTools == InitTools /\ [][NextContainerTools]_vars

(***************************************************************************)
(* Properties of the tools                                                 *)
(***************************************************************************)
IsRunCommand == toolCall # NoCall /\ toolCall.tool = "run_command"

\* C14: after run_command returns, on every exit path (success, non-zero
\* exit, timeout, or an exception such as failing to enter the project
\* directory), the working directory of the process is what it was
\* immediately before the call.
C14_CwdRestored == IsRunCommand => cwd = toolCall.cwd_before

\* the command ran in the project directory and timed out
C14_Witness ==
    /\ IsRunCommand
    /\ toolCall.ran_in = <<ProjectPath>>
    /\ toolCall.env.run.kind = "timeout"
    /\ toolCall.cwd_before # ProjectPath
    /\ cwd = toolCall.cwd_before

\* C16: every tool handed out by get_tools_for_project returns a string
\* observation for every input and every failure of the file system or the
\* runtime; none lets an exception reach the agent loop.
C16_ToolsNeverRaise == toolCall # NoCall => toolCall.raised = "none"

(***************************************************************************)
(* Properties of wait_and_retry                                            *)
(***************************************************************************)
IsWait ==
    /\ toolCall # NoCall
    /\ toolCall.tool = "wait_and_retry"
    /\ toolCall.container_name # NoContainer

\* the action asks for the wait, and the status query found the sandbox running
WaitAsked == toolCall.input \in {"wait", "Wait"}
WaitFoundRunning ==
    /\ WaitAsked
    /\ toolCall.answers[1].exists
    /\ toolCall.answers[1].running

\* the observation is one of the tool's error messages
WaitErrorObservation ==
    toolCall.obs.msg \in {"Container is not running. Status: {status}",
                          "Unknown action '{action}'. Available actions: wait"}

\* C26 as stated: wait_and_retry('wait') sleeps exactly when the executor's
\* readiness backoff would, that is when the sandbox is running and its
\* reported age is under 30 seconds; it sleeps at most once and then queries
\* the status again; when the sandbox is not running or the action is not
\* 'wait' it returns an error observation without sleeping.
C26_SameConditionAsBackoff ==
    IsWait =>
      /\ toolCall.sleeps # <<>>
           <=> (WaitFoundRunning /\ GraceSleeps(toolCall.answers[1]) # <<>>)
      /\ Len(toolCall.sleeps) <= 1
      /\ toolCall.sleeps # <<>> => toolCall.cmds = <<ListCmd, ListCmd>>
      /\ ~WaitFoundRunning => (WaitErrorObservation /\ toolCall.sleeps = <<>>)

\* C26 amended: wait_and_retry('wait') sleeps exactly when the sandbox is
\* running and its status text holds "up" and "second", whatever the age in
\* seconds; this covers every status the executor's backoff waits on and more
\* (ages from 30 seconds on, "Less than a second"); it sleeps at most once
\* and then queries the status again; when the sandbox is not running or the
\* action is not 'wait' it returns an error observation without sleeping.
C26_WaitsWhileAgeInSeconds ==
    IsWait =>
      /\ toolCall.sleeps # <<>>
           <=> (/\ WaitFoundRunning
                /\ Contains(TxtUp, Lower(toolCall.answers[1].status))
                /\ Contains(TxtSecond, Lower(toolCall.answers[1].status)))
      /\ (WaitFoundRunning /\ GraceSleeps(toolCall.answers[1]) # <<>>)
           => toolCall.sleeps # <<>>
      /\ Len(toolCall.sleeps) <= 1
      /\ toolCall.sleeps # <<>> => toolCall.cmds = <<ListCmd, ListCmd>>
      /\ ~WaitFoundRunning => (WaitErrorObservation /\ toolCall.sleeps = <<>>)

\* the sandbox has been up for 30 seconds: the tool waits, the executor would not
C26_Witness ==
    /\ IsWait
    /\ WaitFoundRunning
    /\ toolCall.answers[1].status = UpText(30)
    /\ toolCall.sleeps = <<10>>
    /\ GraceSleeps(toolCall.answers[1]) = <<>>

(***************************************************************************)
(* tools.py: run_command_tool called by two sessions in two threads.  The  *)
(* working directory belongs to the process, so each system call of the    *)
(* tool is a step of its own.                                              *)
(***************************************************************************)
\* the project roots of the two sessions: /p and /r exist, /q does not
ThreadRoots == (1 :> {ProjectPath, <<"/", "q">>}) @@ (2 :> {<<"/", "r">>})

InitThreads ==
    /\ files = InitFiles
    /\ dirs = InitDirs \cup {<< <<"r">> >>}
    /\ toolCall = NoCall
    /\ projects = {}
    /\ dcall = NoCall
    /\ prev = NoCall
    /\ cwd = Cwd
    /\ threads = NoThreads
    /\ db = NoRows
    /\ session = NoSession

\* original_cwd = os.getcwd()  (line 101)
ThreadGetcwd(t, project_path, command) ==
    /\ threads[t].pc = "idle"
    /\ threads' = [threads EXCEPT ![t] =
                     [pc |-> "saved", project_path |-> project_path, command |-> command,
                      original_cwd |-> cwd]]
    /\ UNCHANGED <<toolVars, projects, dcall, prev, cwd, db, session>>

\* os.chdir(project_path)  (line 102); when it raises, the handler of line
\* 136 runs os.chdir(original_cwd) and the tool returns
ThreadChdir(t) ==
    /\ threads[t].pc = "saved"
    /\ IF PathIsDir(threads[t].project_path, dirs, files)
       THEN /\ cwd' = threads[t].project_path
            /\ threads' = [threads EXCEPT ![t] =
                             [pc |-> "entered", project_path |-> threads[t].project_path,
                              command |-> threads[t].command,
                              original_cwd |-> threads[t].original_cwd]]
       ELSE /\ cwd' = threads[t].original_cwd
            /\ threads' = [threads EXCEPT ![t] =
                             [pc |-> "returned", project_path |-> threads[t].project_path,
                              ran_in |-> <<>>,
                              obs |-> Obs("Error running command: {e}",
                                          <<"FileNotFoundError">>)]]
    /\ UNCHANGED <<toolVars, projects, dcall, prev, db, session>>

\* subprocess.run starts the shell: the child inherits the working directory
\* the process has at this moment  (line 105)
ThreadSpawn(t) ==
    /\ threads[t].pc = "entered"
    /\ threads' = [threads EXCEPT ![t] =
                     [pc |-> "running", project_path |-> threads[t].project_path,
                      command |-> threads[t].command,
                      original_cwd |-> threads[t].original_cwd, ran_in |-> <<cwd>>]]
    /\ UNCHANGED <<toolVars, projects, dcall, prev, cwd, db, session>>

\* the child ends, times out or could not be started; each of the three
\* paths runs os.chdir(original_cwd)  (lines 114, 134, 137)
ThreadFinish(t) ==
    /\ threads[t].pc = "running"
    /\ \E out \in HostOutcomes :
         threads' = [threads EXCEPT ![t] =
                       [pc |-> "returned", project_path |-> threads[t].project_path,
                        ran_in |-> threads[t].ran_in,
                        obs |-> RunCommandInside(threads[t].project_path,
                                                 threads[t].command, out,
                                                 threads[t].original_cwd).obs]]
    /\ cwd' = threads[t].original_cwd
    /\ UNCHANGED <<toolVars, projects, dcall, prev, db, session>>

\* the agent loop of the session takes the observation
ThreadReturn(t) ==
    /\ threads[t].pc = "returned"
    /\ threads' = [threads EXCEPT ![t] = [pc |-> "idle"]]
    /\ UNCHANGED <<toolVars, projects, dcall, prev, cwd, db, session>>

NextThreads ==
    \/ \E t \in Threads, command \in HostCommands :
         \E project_path \in ThreadRoots[t] : ThreadGetcwd(t, project_path, command)
    \/ \E t \in Threads : ThreadChdir(t)
    \/ \E t \in Threads : ThreadSpawn(t)
    \/ \E t \in Threads : ThreadFinish(t)
    \/ \E t \in Threads : ThreadReturn(t)

SpecThreads == InitThreads /\ [][NextThreads]_vars

\* C15: two sessions running run_command concurrently in separate threads
\* for different project roots do not interfere: each command runs with its
\* own session's project root as working directory, and once no call is in
\* progress the working directory of the process is what it was before the
\* calls started.
C15_NoInterference ==
    /\ \A t \in Threads :
         (threads[t].pc \in {"running", "returned"} /\ threads[t].ran_in # <<>>)
           => threads[t].ran_in = <<threads[t].project_path>>
    /\ (\A t \in Threads : threads[t].pc \in {"idle", "returned"}) => cwd = Cwd

(***************************************************************************)
(* Properties of execute_container_command and deploy_app                  *)
(***************************************************************************)
\* the exec process was started by the call
ExecAttempted == Len(dcall.cmds) = 2 /\ dcall.cmds[2].sub = "exec"

\* the exec process ended with a non-zero code or was cut off by the timeout
CommandFailed ==
    /\ ExecAttempted
    /\ \/ dcall.env.exec.kind = "timeout"
       \/ dcall.env.exec.kind = "exit" /\ dcall.env.exec.rc # 0

\* the runtime binary was missing when the status listing was started
BinaryMissingAtListing ==
    /\ ~dcall.answers[1].exists
    /\ dcall.answers[1].error = <<"FileNotFoundError">>

\* the runtime binary was missing when the exec process was started
BinaryMissingAtExec ==
    /\ ExecAttempted
    /\ dcall.env.exec.kind = "error" /\ dcall.env.exec.exc = "FileNotFoundError"

\* C17: execute_container_command raises no exception for command failure
\* (a non-zero exit or a timeout is returned with success = false); an
\* exception leaves it for executor-internal faults such as the missing
\* runtime binary, and only for those.
C17_RaisesForInternalFaultOnly ==
    IsExec =>
      /\ CommandFailed => (dcall.raised = "none" /\ ~dcall.ret.success)
      /\ (BinaryMissingAtListing \/ BinaryMissingAtExec) <=> dcall.raised # "none"

\* C17 as the code has it: no exception leaves execute_container_command at
\* all.  A failed or timed-out command and a missing runtime binary are all
\* returned with success = false; a binary missing at exec is named in
\* stderr, a binary missing at the status listing gives the result of an
\* absent container with the cause in container_status.error.
C17_FailuresAreReturned ==
    IsExec =>
      /\ dcall.raised = "none"
      /\ CommandFailed =>
           /\ ~dcall.ret.success
           /\ dcall.ret.return_code =
                (IF dcall.env.exec.kind = "exit" THEN dcall.env.exec.rc ELSE -1)
      /\ BinaryMissingAtExec =>
           /\ ~dcall.ret.success /\ dcall.ret.return_code = -1
           /\ dcall.ret.stderr[1] = "dock-route executable not found at "
      /\ BinaryMissingAtListing =>
           /\ ~dcall.ret.success /\ dcall.ret.return_code = -1
           /\ dcall.ret.stderr = <<"Container '", dcall.name, "' not found">>
           /\ dcall.ret.container_status.error = <<"FileNotFoundError">>
           /\ ~ExecAttempted

\* the runtime binary is missing when the running container's command is started
C17_Witness ==
    /\ IsExec
    /\ BinaryMissingAtExec
    /\ dcall.raised = "none" /\ ~dcall.ret.success

(***************************************************************************)
(* The core as a whole: the docker_route functions and the host command,   *)
(* one call at a time                                                      *)
(***************************************************************************)
CoreDocker == toolCall = NoCall /\ Next

CoreHost ==
    /\ dcall = NoCall
    /\ \E project_path \in ProjectPaths, command \in HostCommands :
         RunCommand(project_path, command)

NextCore == CoreDocker \/ CoreHost \/ ToolReturn

SpecCore == Init /\ [][NextCore]_vars

\* C18: no core operation blocks indefinitely on an external process: the
\* status listing, the host command, the container exec, start / stop and
\* deploy's create command are all cut off by a timeout, and when a timeout
\* fires the operation ends with a failed result or status.
C18_NoIndefiniteBlock ==
    /\ dcall # NoCall => ~IsBlocked(dcall)
    /\ (IsExec /\ ExecAttempted /\ dcall.env.exec.kind = "timeout") =>
         (dcall.raised = "none" /\ ~dcall.ret.success)
    /\ (IsRestart /\ dcall.env.stop.kind = "timeout") => ~dcall.ret.success
    /\ (IsRestart /\ CountSub(dcall, "start") = 1 /\ dcall.env.start.kind = "timeout") =>
         ~dcall.ret.success
    /\ (IsEnsure /\ CountSub(dcall, "start") = 1 /\ dcall.env.start.kind = "timeout") =>
         ~dcall.ret.success
    /\ (dcall # NoCall /\ dcall.op = "check_container_status"
        /\ dcall.ret.status = TxtTimeout) =>
         (~dcall.ret.exists /\ dcall.raised = "none")
    /\ (IsRunCommand /\ toolCall.env.run.kind = "timeout") =>
         /\ toolCall.raised = "none"
         /\ toolCall.obs.msg = "Error: Command timed out after 30 seconds"

\* C19: when the project directory of project_name exists already, deploy_app
\* fails with the deployment failure, leaves the directory's contents as they
\* were and does not run the create command.
C19_ExistingProjectUntouched ==
    (IsDeploy /\ dcall.env.project \in ProjectsNamed(dcall.env.before)) =>
      /\ dcall.raised = "RuntimeError"
      /\ dcall.cmds = <<>>
      /\ projects = dcall.env.before

\* deploy_app for a project whose directory holds an interrupted earlier copy
C19_Witness ==
    /\ IsDeploy
    /\ [name |-> dcall.env.project, contents |-> "partial"] \in dcall.env.before
    /\ dcall.env.copy = "FileExistsError"
    /\ dcall.raised = "RuntimeError"
    /\ [name |-> dcall.env.project, contents |-> "partial"] \in projects

(***************************************************************************)
(* api/projects.py: create_project                                         *)
(***************************************************************************)
MaxProjectRows == 2   \* create_project is explored while the table has fewer rows

\* names generate_fancy_project_name may return; ports random.randint draws
FancyNames == {"x", "y"}
CreatePorts == {8084, 9999}
InsertOutcomes == {"ok", "error"}

\* projects.name is UNIQUE: the INSERT of a name the table holds fails
InsertOutcomesFor(rows, fancy_name) ==
    IF \E row \in rows : row.name = fancy_name THEN {"error"} ELSE InsertOutcomes

\* port = None
NoPort == 0

\* str(uuid.uuid4()): an id no row of the table has (the smallest, to keep the
\* ids bounded)
NewId(rows) ==
    CHOOSE i \in 1..(Cardinality(rows) + 1) :
        /\ \A row \in rows : row.id # i
        /\ \A k \in 1..(i - 1) : \E row \in rows : row.id = k

\* db_service.create_project: INSERT ... VALUES (?, ?, ?, ?, ?, 'created', ...)
InsertProject(rows, fancy_name) ==
    rows \cup {[id |-> NewId(rows), name |-> fancy_name,
                docker_container |-> NoContainer, port |-> NoPort, status |-> "created"]}

\* db_service.update_project(project.id, project)
UpdateProject(rows, id, fancy_name, container_name, port) ==
    {IF row.id = id
     THEN [row EXCEPT !.name = fancy_name, !.docker_container = container_name,
                      !.port = port]
     ELSE row : row \in rows}

\* db_service.get_project_by_id
GetProjectById(table, project_id) == {row \in table.projects : row.id = project_id}

\* the ids a request may name: those of the rows, and one of no row
ProjectIds == 1..MaxProjectRows

\* create_project once the row is inserted, given what deploy_app did
CreateProjectDeployed(id, fancy_name, port, message, deployed, table) ==
    IF deployed.blocked
    THEN [ret |-> NoRet, raised |-> "none", db |-> table]
    ELSE IF deployed.raised # "none"
    THEN [ret |-> [status_code |-> 200, error |-> deployed.raised], raised |-> "none",
          db |-> table]
    ELSE [ret |-> [status_code |-> 201, message |-> "Project created successfully",
                   id |-> id, name |-> fancy_name,
                   docker_container |-> deployed.ret.container_name, port |-> port],
          raised |-> "none",
          db |-> [projects |-> UpdateProject(table.projects, id,
                                             fancy_name, deployed.ret.container_name, port),
                  messages |-> table.messages
                               \cup {[id |-> NewId(table.messages),
                                      project_id |-> id,
                                      role |-> "user", content |-> message]}]]

\* create_project
CreateProjectHandler(fancy_name, port, message, insertOut, deployed, table) ==
    IF insertOut # "ok"
    THEN [ret |-> NoRet, raised |-> "HTTPException", db |-> table]
    ELSE CreateProjectDeployed(NewId(table.projects), fancy_name, port, message, deployed,
                               [projects |-> InsertProject(table.projects, fancy_name),
                                messages |-> table.messages])

CreateProjectCall(fancy_name, insertOut, deployed, r, env) ==
    /\ dcall' = [op |-> "create_project", name |-> Lower(<<fancy_name>>), ret |-> r.ret,
                 raised |-> r.raised,
                 cmds |-> IF insertOut = "ok" THEN deployed.cmds ELSE <<>>,
                 sleeps |-> <<>>, answers |-> <<>>, env |-> env,
                 blocked |-> insertOut = "ok" /\ deployed.blocked]
    /\ db' = r.db
    /\ projects' = IF insertOut = "ok" THEN deployed.projects ELSE projects

CreateProject(fancy_name, port, message) ==
    /\ dcall = NoCall
    /\ Cardinality(db.projects) < MaxProjectRows
    /\ \E insertOut \in InsertOutcomesFor(db.projects, fancy_name), copyOut \in CopyOutcomes,
          createOut \in CreateOutcomes :
         CreateProjectCall(
           fancy_name, insertOut,
           DeployApp("t", fancy_name, Lower(<<fancy_name>>), port, copyOut, createOut,
                     projects),
           CreateProjectHandler(fancy_name, port, message, insertOut,
                                DeployApp("t", fancy_name, Lower(<<fancy_name>>), port,
                                          copyOut, createOut, projects),
                                db),
           [insert |-> insertOut,
            deploy_raised |-> insertOut = "ok"
                              /\ DeployApp("t", fancy_name, Lower(<<fancy_name>>), port,
                                           copyOut, createOut, projects).raised # "none",
            before |-> db])
    /\ UNCHANGED <<prev, toolVars, hostVars>>

\* db_service.delete_project: the project's messages, then its row
DeleteProjectRows(table, project_id) ==
    [projects |-> {row \in table.projects : row.id # project_id},
     messages |-> {m \in table.messages : m.project_id # project_id}]

CleanupRaises == {FALSE, TRUE}
DeleteOutcomes == {"ok", "error"}

\* variant of delete_project that lets a cleanup exception reach the outer handler
DeleteProjectFound_CleanupPropagates(project_id, row, cleaned, cleanupRaises, deleteOut, table) ==
    IF cleanupRaises
    THEN [ret |-> NoRet, raised |-> "HTTPException", status_code |-> 500, db |-> table,
          cleanup_called |-> TRUE, delete_called |-> FALSE]
    ELSE IF deleteOut # "ok"
    THEN [ret |-> NoRet, raised |-> "HTTPException", status_code |-> 500, db |-> table,
          cleanup_called |-> TRUE, delete_called |-> TRUE]
    ELSE [ret |-> [message |-> "Project deleted successfully", project_id |-> project_id,
                   cleanup_result |-> cleaned.ret],
          raised |-> "none", status_code |-> 200,
          db |-> DeleteProjectRows(table, project_id),
          cleanup_called |-> TRUE, delete_called |-> TRUE]

\* delete_project once the project is found (lines 92-113)
DeleteProjectFound(project_id, row, cleaned, cleanupRaises, deleteOut, table) ==
    IF deleteOut # "ok"
    THEN [ret |-> NoRet, raised |-> "HTTPException", status_code |-> 500, db |-> table,
          cleanup_called |-> Len(row.docker_container) > 0 \/ row.name # "",
          delete_called |-> TRUE]
    ELSE [ret |-> [message |-> "Project deleted successfully", project_id |-> project_id,
                   cleanup_result |->
                     IF ~(Len(row.docker_container) > 0 \/ row.name # "")
                     THEN [container_removed |-> FALSE, image_removed |-> FALSE,
                           files_removed |-> FALSE, errors |-> <<>>]
                     ELSE IF cleanupRaises
                     THEN [container_removed |-> FALSE, image_removed |-> FALSE,
                           files_removed |-> FALSE,
                           errors |-> << <<"Cleanup failed", "raise">> >>]
                     ELSE cleaned.ret],
          raised |-> "none", status_code |-> 200,
          db |-> DeleteProjectRows(table, project_id),
          cleanup_called |-> Len(row.docker_container) > 0 \/ row.name # "",
          delete_called |-> TRUE]

\* delete_project
DeleteProjectEndpoint(project_id, rmContainer, rmImage, rmFiles, cleanupRaises, deleteOut, table, projs) ==
    IF GetProjectById(table, project_id) = {}
    THEN [ret |-> NoRet, raised |-> "HTTPException", status_code |-> 404, db |-> table,
          cleanup_called |-> FALSE, delete_called |-> FALSE]
    ELSE DeleteProjectFound(
           project_id, CHOOSE row \in GetProjectById(table, project_id) : TRUE,
           DeleteProjectAndCleanup(
             (CHOOSE row \in GetProjectById(table, project_id) : TRUE).docker_container,
             (CHOOSE row \in GetProjectById(table, project_id) : TRUE).name,
             rmContainer, rmImage, rmFiles, projs),
           cleanupRaises, deleteOut, table)

DeleteProjectCall(project_id, r, projs, env) ==
    /\ dcall' = [op |-> "delete_project", name |-> <<>>, project_id |-> project_id,
                 ret |-> r.ret, raised |-> r.raised, status_code |-> r.status_code,
                 cmds |-> <<>>, sleeps |-> <<>>, answers |-> <<>>, env |-> env,
                 cleanup_called |-> r.cleanup_called, delete_called |-> r.delete_called]
    /\ db' = r.db
    /\ projects' = IF r.cleanup_called THEN projs ELSE projects

DeleteProject(project_id) ==
    /\ dcall = NoCall
    /\ \E rmContainer \in StepOutcomes, rmImage \in {"ok"}, rmFiles \in {"ok", "fail"},
          cleanupRaises \in CleanupRaises, deleteOut \in DeleteOutcomes :
         DeleteProjectCall(
           project_id,
           DeleteProjectEndpoint(project_id, rmContainer, rmImage, rmFiles, cleanupRaises,
                                 deleteOut, db, projects),
           IF GetProjectById(db, project_id) = {} THEN projects
           ELSE DeleteProjectAndCleanup(
                  (CHOOSE row \in GetProjectById(db, project_id) : TRUE).docker_container,
                  (CHOOSE row \in GetProjectById(db, project_id) : TRUE).name,
                  rmContainer, rmImage, rmFiles, projects).projects,
           [existed |-> GetProjectById(db, project_id) # {}, before |-> db,
            container |-> rmContainer, image |-> rmImage, files |-> rmFiles,
            cleanup_raises |-> cleanupRaises, delete |-> deleteOut])
    /\ UNCHANGED <<prev, toolVars, hostVars>>

\* what `list containers` may do while get_project runs for a container
ProjectListOutcomes(n) ==
    {[kind |-> "exit", rc |-> 0, stdout |-> l, stderr |-> ""] :
        l \in {<<>>,
               JoinWith(<<<<"-", " ">> \o Marker(n), TxtStatus \o <<" ">> \o UpText(2)>>,
                        <<"\n">>),
               JoinWith(<<<<"-", " ">> \o Marker(n), TxtStatus \o <<" ">> \o TxtExited>>,
                        <<"\n">>)}}
    \cup {[kind |-> "timeout"]}

ProjectStatuses(n) == {CheckContainerStatus(n, out) : out \in ProjectListOutcomes(n)}

\* variant of get_project that calls ensure_container_running whatever needs_start is
GetProjectFound_AlwaysEnsure(row, container_status, ensured) ==
    [ret |-> [id |-> row.id, name |-> row.name, docker_container |-> row.docker_container,
              port |-> row.port,
              container_info |->
                IF ensured.ret.success
                THEN [container_status EXCEPT !.running = TRUE,
                                              !.status = <<"Started automatically">>]
                ELSE container_status,
              container_started |-> ensured.ret.success],
     raised |-> "none", status_code |-> 200,
     cmds |-> <<ListCmd>> \o ensured.cmds, sleeps |-> ensured.sleeps]

\* get_project for a project with a container (lines 129-139, 141-153)
GetProjectFound(row, container_status, ensured) ==
    IF container_status.needs_start
    THEN [ret |-> [id |-> row.id, name |-> row.name,
                   docker_container |-> row.docker_container, port |-> row.port,
                   container_info |->
                     IF ensured.ret.success
                     THEN [container_status EXCEPT !.running = TRUE,
                                                   !.status = <<"Started automatically">>]
                     ELSE container_status,
                   container_started |-> ensured.ret.success],
          raised |-> "none", status_code |-> 200,
          cmds |-> <<ListCmd>> \o ensured.cmds, sleeps |-> ensured.sleeps]
    ELSE [ret |-> [id |-> row.id, name |-> row.name,
                   docker_container |-> row.docker_container, port |-> row.port,
                   container_info |-> container_status, container_started |-> FALSE],
          raised |-> "none", status_code |-> 200, cmds |-> <<ListCmd>>, sleeps |-> <<>>]

\* get_project for a project found in the table
GetProjectRow(row, status, ensure_status, startOut, new_status) ==
    IF Len(row.docker_container) = 0
    THEN [ret |-> [id |-> row.id, name |-> row.name,
                   docker_container |-> row.docker_container, port |-> row.port,
                   container_info |-> "None", container_started |-> FALSE],
          raised |-> "none", status_code |-> 200, cmds |-> <<>>, sleeps |-> <<>>]
    ELSE GetProjectFound(row,
                         GetContainerStatusForProject(row.docker_container, status),
                         EnsureContainerRunning(row.docker_container, ensure_status,
                                                startOut, new_status))

\* get_project
GetProjectEndpoint(project_id, status, ensure_status, startOut, new_status, table) ==
    IF GetProjectById(table, project_id) = {}
    THEN [ret |-> NoRet, raised |-> "HTTPException", status_code |-> 404, cmds |-> <<>>,
          sleeps |-> <<>>]
    ELSE GetProjectRow(CHOOSE row \in GetProjectById(table, project_id) : TRUE,
                       status, ensure_status, startOut, new_status)

GetProjectCall(project_id, n, r, answers, env) ==
    dcall' = [op |-> "get_project", name |-> n, project_id |-> project_id, ret |-> r.ret,
              raised |-> r.raised, status_code |-> r.status_code, cmds |-> r.cmds,
              sleeps |-> r.sleeps,
              answers |-> SubSeq(answers, 1,
                                 Cardinality({i \in 1..Len(r.cmds) : r.cmds[i] = ListCmd})),
              env |-> env]

\* the container the request is about: the row's, or none
ContainerOfProject(table, project_id) ==
    IF GetProjectById(table, project_id) = {} THEN NoContainer
    ELSE (CHOOSE row \in GetProjectById(table, project_id) : TRUE).docker_container

GetProject(project_id) ==
    /\ dcall = NoCall
    /\ \E status \in ProjectStatuses(ContainerOfProject(db, project_id)),
          ensure_status \in ProjectStatuses(ContainerOfProject(db, project_id)),
          startOut \in RunOutcomes,
          new_status \in ProjectStatuses(ContainerOfProject(db, project_id)) :
         GetProjectCall(project_id, ContainerOfProject(db, project_id),
                        GetProjectEndpoint(project_id, status, ensure_status, startOut,
                                           new_status, db),
                        <<status, ensure_status, new_status>>,
                        [start |-> startOut])
    /\ UNCHANGED <<projects, prev, toolVars, hostVars, db>>

\* the client has the response; the next request may follow
ApiReturn ==
    /\ dcall # NoCall
    /\ ~IsBlocked(dcall)
    /\ dcall' = NoCall
    /\ UNCHANGED <<projects, prev, toolVars, hostVars, db>>

NextApi ==
    \/ \E fancy_name \in FancyNames, port \in CreatePorts : CreateProject(fancy_name, port, <<"m">>)
    \/ \E project_id \in ProjectIds : DeleteProject(project_id)
    \/ \E project_id \in ProjectIds : GetProject(project_id)
    \/ ApiReturn

SpecApi == Init /\ [][NextApi]_vars

IsCreate == dcall # NoCall /\ dcall.op = "create_project"

\* C20: when deploy fails during the create_project request, project creation
\* is aborted: the response carries the error, no project record of that
\* request remains persisted, and neither the container / port update nor
\* the initial conversation message is written.
C20_FailedDeployLeavesNoRecord ==
    (IsCreate /\ dcall.env.deploy_raised) =>
      /\ "error" \in DOMAIN dcall.ret
      /\ db.projects = dcall.env.before.projects
      /\ db.messages = dcall.env.before.messages

(***************************************************************************)
(* Properties of the delete_project and get_project endpoints              *)
(***************************************************************************)
IsDelete == dcall # NoCall /\ dcall.op = "delete_project"

\* C23: delete_project for an existing project calls the database deletion
\* whether cleanup succeeded, reported failures or raised, and once that
\* deletion succeeds the record is gone and the response is the normal one;
\* a cleanup exception is not propagated but appended to
\* cleanup_result.errors; for a project that does not exist the response is
\* 404 and neither cleanup nor database deletion is performed.
C23_DeleteAlwaysRemovesRecord ==
    IsDelete =>
      /\ dcall.env.existed =>
           /\ dcall.delete_called
           /\ dcall.raised # "none" => dcall.env.delete # "ok"
           /\ dcall.env.delete = "ok" =>
                /\ GetProjectById(db, dcall.project_id) = {}
                /\ dcall.status_code = 200
                /\ (dcall.env.cleanup_raises /\ dcall.cleanup_called) =>
                     \E i \in 1..Len(dcall.ret.cleanup_result.errors) :
                        dcall.ret.cleanup_result.errors[i][1] = "Cleanup failed"
      /\ ~dcall.env.existed =>
           /\ dcall.status_code = 404
           /\ ~dcall.cleanup_called
           /\ ~dcall.delete_called
           /\ db = dcall.env.before

\* an existing project was deleted although its cleanup raised
C23_Witness ==
    /\ IsDelete
    /\ dcall.env.existed
    /\ dcall.env.cleanup_raises
    /\ dcall.env.delete = "ok"
    /\ GetProjectById(dcall.env.before, dcall.project_id) # {}
    /\ GetProjectById(db, dcall.project_id) = {}

IsGet == dcall # NoCall /\ dcall.op = "get_project"

StartIssued == \E i \in 1..Len(dcall.cmds) : dcall.cmds[i] = StartCmd(dcall.name)

\* C30: get_project issues a start for the project's container only when its
\* status query reported the container as existing and not running; for an
\* absent or an already running container it makes no further call, and a
\* start that fails or raises still yields the normal response, with
\* container_started = false.
C30_StartOnlyWhenNeeded ==
    (IsGet /\ dcall.status_code = 200 /\ dcall.name # NoContainer) =>
      /\ StartIssued => (dcall.answers[1].exists /\ ~dcall.answers[1].running)
      /\ (~dcall.answers[1].exists \/ dcall.answers[1].running) =>
           (dcall.cmds = <<ListCmd>> /\ ~dcall.ret.container_started)
      /\ (StartIssued /\ ~(dcall.env.start.kind = "exit" /\ dcall.env.start.rc = 0)) =>
           (dcall.raised = "none" /\ ~dcall.ret.container_started)

\* the container was stopped, the start was issued and failed
C30_Witness ==
    /\ IsGet
    /\ dcall.status_code = 200
    /\ StartIssued
    /\ dcall.env.start.kind = "error"
    /\ dcall.raised = "none"
    /\ ~dcall.ret.container_started

(***************************************************************************)
(* agents/tools.py: get_tools_for_project; agents/react_agent.py;          *)
(* api/streaming.py: websocket_stream                                      *)
(***************************************************************************)
MaxMessageRows == 3   \* messages are received while the table has fewer rows

AlwaysTools == {"read_file", "write_file", "list_files", "run_command", "get_project_info"}
ContainerTools == {"execute_container_command", "manage_container", "wait_and_retry"}

\* tools = [...]; if container_name: tools.extend([...])
GetToolsForProject_AlwaysExtend(project_path, container_name) ==
    AlwaysTools \cup ContainerTools

GetToolsForProject(project_path, container_name) ==
    AlwaysTools \cup (IF Len(container_name) > 0 THEN ContainerTools ELSE {})

\* ReActAgent.__init__
NewAgent(project_path, container_name) ==
    [project_path |-> project_path, container_name |-> container_name,
     tools |-> GetToolsForProject(project_path, container_name)]

\* the head of ReActAgent.stream_response: `if project_path:` rebuilds the tools
StreamResponseAgent(agent, project_path, container_name) ==
    IF Len(project_path) > 0
    THEN [project_path |-> project_path,
          container_name |-> IF Len(container_name) > 0 THEN container_name
                             ELSE agent.container_name,
          tools |-> GetToolsForProject(
                      project_path,
                      IF Len(container_name) > 0 THEN container_name
                      ELSE agent.container_name)]
    ELSE agent

\* db_service.create_conversation_message
InsertMessage(table, project_id, role, content) ==
    [projects |-> table.projects,
     messages |-> table.messages
                  \cup {[id |-> NewId(table.messages), project_id |-> project_id,
                         role |-> role, content |-> content]}]

\* db_service.get_project_messages
GetProjectMessages(table, project_id) == {m \in table.messages : m.project_id = project_id}

\* db_service.get_chat_summary: "" below two messages, else the counts by role
GetChatSummary(table, project_id) ==
    IF Cardinality(GetProjectMessages(table, project_id)) < 2
    THEN <<>>
    ELSE <<Cardinality({m \in GetProjectMessages(table, project_id) : m.role = "user"}),
           Cardinality({m \in GetProjectMessages(table, project_id) : m.role = "assistant"})>>

\* what ReActAgent._process_chunk yields: a content chunk or a raw chunk
ChunkTypes == {"content", "raw"}
ChunkSeqs == {<<>>} \cup {<<a>> : a \in ChunkTypes}
               \cup {<<a, b>> : a \in ChunkTypes, b \in ChunkTypes}
StreamOutcomes == {"ok", "raise"}

\* `full_response += content` for the content chunks; full_response, input_tokens
\* and output_tokens are assigned only under `if chat_summary:`
RECURSIVE StreamEvents(_, _)
StreamEvents(chunks, bound) ==
    IF chunks = <<>> THEN <<>>
    ELSE (IF Head(chunks) = "content"
          THEN (IF bound THEN <<"agent_response">> ELSE <<"debug">>)
          ELSE <<>>)
         \o StreamEvents(Tail(chunks), bound)

ContentOf(chunks) == SelectSeq(chunks, LAMBDA c : c = "content")

\* the iteration after the agent's stream ended: `if full_response.strip():`
\* stores the assistant message, then response_complete is sent
WsComplete(s, stored, agent, called, events, bound, full) ==
    [session |-> [s EXCEPT !.agent = agent, !.called = called, !.bound = bound,
                           !.full_response = full, !.handled = TRUE,
                           !.sent = events \o <<"response_complete">>],
     db |-> IF full # <<>>
            THEN InsertMessage(stored, s.project.id, "assistant", full)
            ELSE stored]

\* `except Exception as e:` around the loop: websocket.close(code=1011)
WsFail(s, stored, agent, called, events, bound, full) ==
    [session |-> [s EXCEPT !.agent = agent, !.called = called, !.bound = bound,
                           !.full_response = full, !.handled = TRUE,
                           !.sent = events, !.pc = "closed", !.close_code = 1011],
     db |-> stored]

\* the iteration from `async for chunk in agent.stream_response(...)` on
WsStream(s, stored, has_summary, called, chunks, streamOut) ==
    IF streamOut = "raise" \/ ~(s.bound \/ has_summary)
    THEN WsFail(s, stored,
                StreamResponseAgent(s.agent, s.project_path, s.project.docker_container),
                called,
                (IF has_summary THEN <<"message_received">> ELSE <<>>) \o <<"status">>
                  \o StreamEvents(chunks, s.bound \/ has_summary),
                s.bound \/ has_summary,
                IF s.bound \/ has_summary
                THEN (IF has_summary THEN <<>> ELSE s.full_response) \o ContentOf(chunks)
                ELSE s.full_response)
    ELSE WsComplete(s, stored,
                    StreamResponseAgent(s.agent, s.project_path, s.project.docker_container),
                    called,
                    (IF has_summary THEN <<"message_received">> ELSE <<>>) \o <<"status">>
                      \o StreamEvents(chunks, TRUE),
                    TRUE,
                    (IF has_summary THEN <<>> ELSE s.full_response) \o ContentOf(chunks))

\* one iteration of `while True:` of websocket_stream for a received message
WsIteration(s, table, message, called, chunks, streamOut) ==
    WsStream(s, InsertMessage(table, s.project.id, "user", message),
             Len(GetChatSummary(InsertMessage(table, s.project.id, "user", message),
                                s.project.id)) > 0,
             called, chunks, streamOut)

\* websocket_stream up to `while True:`
WsAccept(table, project_id) ==
    IF GetProjectById(table, project_id) = {}
    THEN [pc |-> "closed", close_code |-> 1003]
    ELSE [pc |-> "open",
          project |-> CHOOSE row \in GetProjectById(table, project_id) : TRUE,
          project_path |-> ProjectDir((CHOOSE row \in GetProjectById(table, project_id) : TRUE).name),
          agent |-> NewAgent(ProjectDir((CHOOSE row \in GetProjectById(table, project_id) : TRUE).name),
                             (CHOOSE row \in GetProjectById(table, project_id) : TRUE).docker_container),
          tools0 |-> NewAgent(ProjectDir((CHOOSE row \in GetProjectById(table, project_id) : TRUE).name),
                              (CHOOSE row \in GetProjectById(table, project_id) : TRUE).docker_container).tools,
          called |-> "none", bound |-> FALSE, full_response |-> <<>>, handled |-> FALSE,
          sent |-> <<"session_started">>, close_code |-> 0,
          env |-> [summary |-> FALSE, stream |-> "ok"]]

\* a client connects to /stream/{project_id}
WsConnect(project_id) ==
    /\ dcall = NoCall
    /\ session.pc = "closed"
    /\ session' = WsAccept(db, project_id)
    /\ UNCHANGED <<projects, dcall, prev, toolVars, cwd, threads, db>>

\* the client sends a message; the agent calls at most one of its tools and
\* its stream yields `chunks`, then ends or raises
WsMessage(message, chunks, streamOut) ==
    /\ dcall = NoCall
    /\ session.pc = "open"
    /\ Cardinality(db.messages) < MaxMessageRows
    /\ \E called \in StreamResponseAgent(session.agent, session.project_path,
                                         session.project.docker_container).tools
                     \cup {"none"} :
         /\ session' = [WsIteration(session, db, message, called, chunks, streamOut).session
                        EXCEPT !.env = [summary |-> Len(GetChatSummary(
                                                      InsertMessage(db, session.project.id,
                                                                    "user", message),
                                                      session.project.id)) > 0,
                                        stream |-> streamOut]]
         /\ db' = WsIteration(session, db, message, called, chunks, streamOut).db
    /\ UNCHANGED <<projects, dcall, prev, toolVars, cwd, threads>>

\* receive_text raises WebSocketDisconnect
WsDisconnect ==
    /\ dcall = NoCall
    /\ session.pc = "open"
    /\ session' = [session EXCEPT !.pc = "closed", !.sent = <<>>, !.handled = FALSE]
    /\ UNCHANGED <<projects, dcall, prev, toolVars, cwd, threads, db>>

NextSession ==
    \/ \E fancy_name \in FancyNames, port \in CreatePorts : CreateProject(fancy_name, port, <<"m">>)
    \/ ApiReturn
    \/ \E project_id \in ProjectIds : WsConnect(project_id)
    \/ \E chunks \in ChunkSeqs, streamOut \in StreamOutcomes : WsMessage(<<"m">>, chunks, streamOut)
    \/ WsDisconnect

SpecSession == Init /\ [][NextSession]_vars

IsSession == "agent" \in DOMAIN session

\* C21: the session's tools hold manage_container, execute_container_command
\* and wait_and_retry if and only if a container name is bound to the session,
\* hold read_file, write_file, list_files and run_command in both cases, and
\* are the same set at every message and every tool call of the session.
C21_ToolSetFixedBySandboxIdentity ==
    IsSession =>
      /\ session.agent.tools = session.tools0
      /\ {"read_file", "write_file", "list_files", "run_command"} \subseteq session.agent.tools
      /\ IF session.project.docker_container # NoContainer
         THEN ContainerTools \subseteq session.agent.tools
         ELSE ContainerTools \cap session.agent.tools = {}
      /\ session.called \in session.tools0 \cup {"none"}

\* a second message of a session with a container was handled with a tool call
C21_Witness ==
    /\ IsSession
    /\ session.handled
    /\ session.env.summary
    /\ session.project.docker_container # NoContainer
    /\ session.called = "wait_and_retry"

\* the number of events of one type the server sent for the last message
RECURSIVE CountSent(_, _)
CountSent(type, sent) ==
    IF sent = <<>> THEN 0
    ELSE (IF Head(sent) = type THEN 1 ELSE 0) + CountSent(type, Tail(sent))

\* C29: for every user message received whose agent stream ended normally,
\* the server sent exactly one response_complete for that message, after the
\* streamed response, and the session is still open for the next message;
\* this includes a message received while the project has no chat summary.
C29_EveryMessageCompleted ==
    (IsSession /\ session.handled /\ session.env.stream = "ok") =>
      /\ CountSent("response_complete", session.sent) = 1
      /\ session.sent[Len(session.sent)] = "response_complete"
      /\ session.pc = "open"

(***************************************************************************)
(* docker_route.py: check_container_status queried again and again while   *)
(* the runtime's listing changes between the queries                       *)
(***************************************************************************)
\* what the runtime lists over time: nothing, only b, a just started (a bare
\* marker line and a list-item marker line), a stopped, a after b
RequeryListings ==
    {<<>>,
     JoinWith(<<MarkerLine(<<"b">>), TxtStatus \o <<" ">> \o UpText(2)>>, <<"\n">>),
     JoinWith(<<Marker(<<"a">>), TxtStatus \o <<" ">> \o UpText(2)>>, <<"\n">>),
     JoinWith(<<MarkerLine(<<"a">>), TxtStatus \o <<" ">> \o UpText(2)>>, <<"\n">>),
     JoinWith(<<MarkerLine(<<"a">>), TxtStatus \o <<" ">> \o TxtExited>>, <<"\n">>),
     JoinWith(<<MarkerLine(<<"b">>), TxtStatus \o <<" ">> \o TxtExited,
                MarkerLine(<<"a">>), TxtStatus \o <<" ">> \o UpText(2)>>, <<"\n">>)}

RequeryOutcomes ==
    {[kind |-> "exit", rc |-> 0, stdout |-> l, stderr |-> ""] : l \in RequeryListings}
    \cup {[kind |-> "exit", rc |-> 1, stdout |-> <<>>, stderr |-> "boom"],
          [kind |-> "timeout"]}

\* a status query; the runtime answers with any of its listings
QueryStatus(n) ==
    /\ dcall = NoCall
    /\ \E out \in RequeryOutcomes :
         dcall' = Call("check_container_status", n,
                       [ret |-> CheckContainerStatus(n, out), cmds |-> <<ListCmd>>,
                        sleeps |-> <<>>],
                       <<CheckContainerStatus(n, out)>>, [list |-> out])
    /\ UNCHANGED <<projects, prev, toolVars, hostVars, db>>

\* the caller has the result; what it was and what was listed is remembered
QueryReturn ==
    /\ dcall # NoCall
    /\ prev' = [op |-> dcall.op, name |-> dcall.name, list |-> dcall.env.list,
                ret |-> dcall.ret]
    /\ dcall' = NoCall
    /\ UNCHANGED <<projects, toolVars, hostVars, db>>

NextRequery ==
    \/ \E n \in ContainerNames : QueryStatus(n)
    \/ QueryReturn

SpecRequery == Init /\ [][NextRequery]_vars

\* the listing of the query in progress holds the name's marker on no line
NotListed ==
    /\ dcall.env.list.kind = "exit"
    /\ dcall.env.list.rc = 0
    /\ ~Contains(Marker(dcall.name), dcall.env.list.stdout)

\* the listing of the query in progress holds the marker line of the name,
\* followed by "Status: Up 2 seconds"
ListedJustStarted ==
    /\ dcall.env.list.kind = "exit"
    /\ dcall.env.list.rc = 0
    /\ \E i \in 1..(Len(RawLines) - 1) :
         /\ Contains(Marker(dcall.name), RawLines[i])
         /\ \A k \in 1..(i - 1) : ~Contains(Marker(dcall.name), RawLines[k])
         /\ RawLines[i + 1] = TxtStatus \o <<" ">> \o UpText(2)

\* C22: the result of a status query depends only on the listing obtained in
\* that query and on the container name: a query that gets the same listing
\* for the same name as the query before it returns the same result, and
\* whatever the query before returned, exists is false while the name is not
\* listed and exists and running are true once the listing holds the name's
\* marker followed by "Status: Up 2 seconds".
C22_ResultFromThisListingOnly ==
    (IsParse /\ "list" \in DOMAIN prev) =>
      /\ (prev.name = dcall.name /\ prev.list = dcall.env.list) => dcall.ret = prev.ret
      /\ NotListed => ~dcall.ret.exists
      /\ ListedJustStarted => (dcall.ret.exists /\ dcall.ret.running)

\* sb1 was queried while not listed, and is queried again once listed
C22_Witness ==
    /\ IsParse
    /\ "list" \in DOMAIN prev
    /\ prev.name = dcall.name
    /\ ~prev.ret.exists
    /\ prev.list.kind = "exit" /\ prev.list.rc = 0
    /\ dcall.env.list.kind = "exit" /\ dcall.env.list.rc = 0
    /\ dcall.env.list.stdout
         = JoinWith(<<Marker(<<"a">>), TxtStatus \o <<" ">> \o UpText(2)>>, <<"\n">>)
    /\ dcall.ret.exists
    /\ dcall.ret.running

(***************************************************************************)
(* database/service.py: DatabaseService._execute_with_retry                *)
(***************************************************************************)
MaxRetries == 3   \* the default of max_retries, and the largest value explored

\* what self.conn.execute does in one attempt, and what db.reconnect() does
AttemptOutcomes == {"ok", "invalidated", "fatal", "error"}
ReconnectOutcomes == {"ok", "raise"}

\* what a call has done so far
NoAttempts == [attempts |-> 0, reconnects |-> 0, conn |-> 0]

\* the two except clauses (lines 27-41), given what db.reconnect() does when
\* it is called: continue with the next attempt, or raise
RetryExcept(attempt, max_retries, out, recOut, acc) ==
    IF out \in {"invalidated", "fatal"}
    THEN IF out = "invalidated" /\ attempt < max_retries - 1
         THEN IF recOut = "ok"
              THEN [continue |-> TRUE, raised |-> "none",
                    acc |-> [acc EXCEPT !.reconnects = @ + 1, !.conn = @ + 1]]
              ELSE [continue |-> FALSE, raised |-> <<"reconnect", attempt + 1>>,
                    acc |-> [acc EXCEPT !.reconnects = @ + 1]]
         ELSE [continue |-> FALSE, raised |-> <<out, attempt + 1>>, acc |-> acc]
    ELSE IF attempt < max_retries - 1
         THEN IF recOut = "ok"
              THEN [continue |-> TRUE, raised |-> "none",
                    acc |-> [acc EXCEPT !.reconnects = @ + 1, !.conn = @ + 1]]
              ELSE [continue |-> FALSE, raised |-> <<out, attempt + 1>>,
                    acc |-> [acc EXCEPT !.reconnects = @ + 1]]
         ELSE [continue |-> FALSE, raised |-> <<out, attempt + 1>>, acc |-> acc]

\* `for attempt in range(max_retries):` from `attempt` on; outs[k] is what the
\* k-th execute does, recs[k] what the k-th reconnect does
RECURSIVE RetryLoop(_, _, _, _, _)
RetryStep(attempt, max_retries, outs, recs, handled) ==
    IF handled.continue
    THEN RetryLoop(attempt + 1, max_retries, outs, recs, handled.acc)
    ELSE [value |-> "None", raised |-> handled.raised, attempts |-> handled.acc.attempts,
          reconnects |-> handled.acc.reconnects, conn |-> handled.acc.conn]

RetryLoop(attempt, max_retries, outs, recs, acc) ==
    IF attempt >= max_retries
    THEN [value |-> "None", raised |-> "none", attempts |-> acc.attempts,
          reconnects |-> acc.reconnects, conn |-> acc.conn]
    ELSE IF outs[attempt + 1] = "ok"
    THEN [value |-> <<"result", attempt + 1>>, raised |-> "none",
          attempts |-> acc.attempts + 1, reconnects |-> acc.reconnects,
          conn |-> acc.conn]
    ELSE RetryStep(attempt, max_retries, outs, recs,
                   RetryExcept(attempt, max_retries, outs[attempt + 1],
                               recs[acc.reconnects + 1],
                               [acc EXCEPT !.attempts = @ + 1]))

\* _execute_with_retry(query, params, max_retries)
ExecuteWithRetry(max_retries, outs, recs) == RetryLoop(0, max_retries, outs, recs, NoAttempts)

ExecuteWithRetryCall(max_retries) ==
    /\ dcall = NoCall
    /\ \E outs \in [1..MaxRetries -> AttemptOutcomes],
          recs \in [1..MaxRetries -> ReconnectOutcomes] :
         dcall' = [op |-> "_execute_with_retry", max_retries |-> max_retries,
                   ret |-> ExecuteWithRetry(max_retries, outs, recs),
                   env |-> [outs |-> outs, recs |-> recs]]
    /\ UNCHANGED <<projects, prev, toolVars, hostVars, db>>

\* the caller has the result or the exception
RetryReturn ==
    /\ dcall # NoCall
    /\ dcall' = NoCall
    /\ UNCHANGED <<projects, prev, toolVars, hostVars, db>>

NextRetry ==
    \/ \E max_retries \in 0..MaxRetries : ExecuteWithRetryCall(max_retries)
    \/ RetryReturn

SpecRetry == Init /\ [][NextRetry]_vars

IsRetry == dcall # NoCall /\ dcall.op = "_execute_with_retry"

\* the attempts of the call in progress that were made, all of them failing
AllAttemptsFailed ==
    /\ dcall.ret.attempts > 0
    /\ \A k \in 1..dcall.ret.attempts : dcall.env.outs[k] # "ok"

\* C24: _execute_with_retry executes the query at most max_retries times and
\* reconnects at most max_retries - 1 times, once before each re-attempt; it
\* returns the result of the first attempt that succeeds, and when every
\* attempt failed the error of the last attempt made propagates.
C24_RetryBoundedLastErrorPropagates ==
    IsRetry =>
      /\ dcall.ret.attempts <= dcall.max_retries
      /\ dcall.ret.reconnects <= dcall.max_retries - 1 \/ dcall.ret.reconnects = 0
      /\ dcall.ret.attempts > 0 => dcall.ret.conn = dcall.ret.attempts - 1
      /\ (\E k \in 1..dcall.max_retries : dcall.env.outs[k] = "ok"
            /\ dcall.ret.raised = "none") =>
           /\ dcall.env.outs[dcall.ret.attempts] = "ok"
           /\ \A k \in 1..(dcall.ret.attempts - 1) : dcall.env.outs[k] # "ok"
           /\ dcall.ret.value = <<"result", dcall.ret.attempts>>
      /\ AllAttemptsFailed =>
           dcall.ret.raised = <<dcall.env.outs[dcall.ret.attempts], dcall.ret.attempts>>

(***************************************************************************)
(* docker_route.py: execute_container_command and ensure_container_running *)
(* called by two callers at once, step by step: the status query, the      *)
(* start of the child process, its end                                     *)
(***************************************************************************)
RaceOps == {"execute_container_command", "ensure_container_running"}

\* a caller enters the function
RaceEnter(t, op, n) ==
    /\ threads[t].pc = "idle"
    /\ threads' = [threads EXCEPT ![t] = [pc |-> "entered", op |-> op, name |-> n]]
    /\ UNCHANGED <<toolVars, projects, dcall, prev, cwd, db, session>>

\* the result of a call that returns without starting a child
RaceEarlyReturn(op, n, status) ==
    IF op = "execute_container_command"
    THEN ExecuteContainerCommand(n, "pnpm build", status, [kind |-> "timeout"]).ret
    ELSE EnsureContainerRunning(n, status, [kind |-> "timeout"], status).ret

\* a child is started: exec for a running sandbox, start for a stopped one
RaceNeedsChild(op, status) ==
    IF op = "execute_container_command" THEN status.exists /\ status.running
    ELSE status.exists /\ ~status.running

\* status = check_container_status(container_name) and the early returns
RaceQuery(t) ==
    /\ threads[t].pc = "entered"
    /\ \E status \in ProjectStatuses(threads[t].name) :
         threads' = [threads EXCEPT ![t] =
                       IF RaceNeedsChild(threads[t].op, status)
                       THEN [pc |-> "ready", op |-> threads[t].op, name |-> threads[t].name,
                             status |-> status]
                       ELSE [pc |-> "done", op |-> threads[t].op, name |-> threads[t].name,
                             status |-> status,
                             ret |-> RaceEarlyReturn(threads[t].op, threads[t].name, status)]]
    /\ UNCHANGED <<toolVars, projects, dcall, prev, cwd, db, session>>

\* variant of the start of the child that waits while another child of the
\* same sandbox is in flight
RaceLaunch_PerSandboxLock(t) ==
    /\ threads[t].pc = "ready"
    /\ \A u \in Threads \ {t} :
         ~(threads[u].pc = "inflight" /\ threads[u].name = threads[t].name)
    /\ threads' = [threads EXCEPT ![t].pc = "inflight"]
    /\ UNCHANGED <<toolVars, projects, dcall, prev, cwd, db, session>>

\* subprocess.run(...) starts the child: nothing is acquired before it
RaceLaunch(t) ==
    /\ threads[t].pc = "ready"
    /\ threads' = [threads EXCEPT ![t].pc = "inflight"]
    /\ UNCHANGED <<toolVars, projects, dcall, prev, cwd, db, session>>

\* the child ends (or times out, or could not be started) and the function
\* builds its result
RaceChildEnd(t) ==
    /\ threads[t].pc = "inflight"
    /\ \E out \in RunOutcomes, new_status \in ProjectStatuses(threads[t].name) :
         threads' = [threads EXCEPT ![t] =
                       [pc |-> "done", op |-> threads[t].op, name |-> threads[t].name,
                        status |-> threads[t].status,
                        ret |-> IF threads[t].op = "execute_container_command"
                                THEN ExecuteContainerCommand(threads[t].name, "pnpm build",
                                                             threads[t].status, out).ret
                                ELSE EnsureContainerRunning(threads[t].name,
                                                            threads[t].status, out,
                                                            new_status).ret]]
    /\ UNCHANGED <<toolVars, projects, dcall, prev, cwd, db, session>>

\* the caller takes the result
RaceReturn(t) ==
    /\ threads[t].pc = "done"
    /\ threads' = [threads EXCEPT ![t] = [pc |-> "idle"]]
    /\ UNCHANGED <<toolVars, projects, dcall, prev, cwd, db, session>>

NextRace ==
    \/ \E t \in Threads, op \in RaceOps, n \in ContainerNames : RaceEnter(t, op, n)
    \/ \E t \in Threads : RaceQuery(t)
    \/ \E t \in Threads : RaceLaunch(t)
    \/ \E t \in Threads : RaceChildEnd(t)
    \/ \E t \in Threads : RaceReturn(t)

SpecRace == Init /\ [][NextRace]_vars

\* caller t is in `op` for sandbox n at step pc
RaceAt(t, pc, op, n) ==
    /\ threads[t].pc = pc
    /\ threads[t].op = op
    /\ threads[t].name = n

\* C25: nothing serializes the commands against one sandbox: a caller that
\* has passed the status query starts its exec (or start) child whatever the
\* other caller is doing, also while the other caller's exec (or start) child
\* for the same sandbox is in flight.
C25_NoPerSandboxExclusion ==
    \A t \in Threads, u \in Threads :
      (t # u /\ threads[t].pc = "ready" /\ threads[u].pc = "inflight"
         /\ threads[u].name = threads[t].name) => ENABLED RaceLaunch(t)

\* two exec children for sandbox a are in flight at the same time
C25_Witness ==
    /\ RaceAt(1, "inflight", "execute_container_command", <<"a">>)
    /\ RaceAt(2, "inflight", "execute_container_command", <<"a">>)

\* two start children for sandbox a are in flight at the same time
C25_WitnessStart ==
    /\ RaceAt(1, "inflight", "ensure_container_running", <<"a">>)
    /\ RaceAt(2, "inflight", "ensure_container_running", <<"a">>)

(***************************************************************************)
(* docker_route.py: check_container_status on blocks of many detail lines  *)
(***************************************************************************)
MaxDetailLines == 6   \* most detail lines between a marker line and its Status line

\* the detail lines the runtime prints before the Status line, in its order
DetailCycle == <<TxtImage \o <<" ", "i">>, TxtPorts \o <<" ", "p">>,
                 TxtSubdomain \o <<" ", "s">>>>

\* a block: the marker line of m, k detail lines, then the Status line
LongBlock(m, k, first, status_text) ==
    <<MarkerLine(m)>>
    \o [i \in 1..k |-> DetailCycle[((i + first) % 3) + 1]]
    \o <<TxtStatus \o <<" ">> \o status_text>>

LongListings ==
    {JoinWith(LongBlock(m, k, first, t), <<"\n">>) :
        m \in ContainerNames, k \in 0..MaxDetailLines, first \in {0, 1},
        t \in {UpText(29), TxtExited}}

LongOutcomes ==
    {[kind |-> "exit", rc |-> 0, stdout |-> l, stderr |-> ""] : l \in LongListings}

CheckStatusLong(n) ==
    /\ dcall = NoCall
    /\ \E out \in LongOutcomes :
         dcall' = Call("check_container_status", n,
                       [ret |-> CheckContainerStatus(n, out), cmds |-> <<ListCmd>>,
                        sleeps |-> <<>>],
                       <<CheckContainerStatus(n, out)>>, [list |-> out])
    /\ UNCHANGED <<projects, prev, toolVars, hostVars, db>>

NextLong ==
    \/ \E n \in ContainerNames : CheckStatusLong(n)
    \/ DockerReturn

SpecLong == Init /\ [][NextLong]_vars

\* the Status lines of the requested container's block
StatusLinesOfBlock ==
    {i \in BlockOf(RawLines, dcall.name) : StartsWith(Strip(RawLines[i]), TxtStatus)}

\* C28: every detail line of the matched block is used, however long the
\* block is: when the block holds a Status line, also as the sixth or a later
\* line after the marker line, the result's status is the value of a Status
\* line of the block and running follows from that value.
C28_WholeBlockIsRead ==
    (IsParse /\ dcall.ret.exists /\ StatusLinesOfBlock # {}) =>
      \E i \in StatusLinesOfBlock :
         /\ dcall.ret.status = ValueAfter(RawLines[i], TxtStatus)
         /\ dcall.ret.running
              = (\/ Contains(TxtUp, Lower(ValueAfter(RawLines[i], TxtStatus)))
                 \/ Contains(TxtRunning, Lower(ValueAfter(RawLines[i], TxtStatus))))

====
